---- MODULE Spec2Model ----
(***************************************************************************)
(* x402 pay-per-request protocol: the server-side payment middleware       *)
(* (FastAPI require_payment and Flask PaymentMiddleware) and the client    *)
(* interceptors (HttpxHooks.on_response, x402HTTPAdapter.send).            *)
(*                                                                         *)
(* Strings that the code inspects character by character (URL paths and    *)
(* path patterns) are sequences of one-character strings; all other        *)
(* strings are TLA+ strings.                                               *)
(***************************************************************************)
EXTENDS Integers, Sequences, FiniteSets, TLC

VARIABLES
    framework,   \* which middleware serves: "fastapi" or "flask"
    cfgPath,     \* the middleware's configured path pattern(s)
    mwPc,        \* per request: where the middleware is
    mwReq,       \* per request: the incoming request
    mwLocal,     \* per request: the middleware's local variables
    mwLog,       \* per request: the events so far, in order
    mwOut,       \* per request: the response that left the middleware
    clientKind,  \* which interceptor: "httpx" or "requests"
    max_value,   \* x402Client.max_value
    is_retry,    \* the interceptor's _is_retry field
    chPc,        \* per response chain: where the interceptor is
    ch,          \* per response chain: what happened in it
    fnCall,      \* which function was called on fnArgs: "none" before
    fnArgs,      \* the arguments of a call; fnArgs.fn names the function
    fnResult,    \* what the call returned or raised
    middleware_configs,  \* PaymentMiddleware.middleware_configs
    wsgi_app,    \* app.wsgi_app: the middlewares around the Flask app,
                 \* outermost first, each the index of its configuration
    appAdds,     \* the calls of PaymentMiddleware.add so far
    appPc,       \* where the request through app.wsgi_app is
    appReq,      \* the request through app.wsgi_app
    appLog       \* what the request caused, in order

mwVars == <<framework, cfgPath, mwPc, mwReq, mwLocal, mwLog, mwOut>>
clVars == <<clientKind, max_value, is_retry, chPc, ch>>
fnVars == <<fnCall, fnArgs, fnResult>>
appVars == <<middleware_configs, wsgi_app, appAdds, appPc, appReq, appLog>>
vars == <<framework, cfgPath, mwPc, mwReq, mwLocal, mwLog, mwOut,
          clientKind, max_value, is_retry, chPc, ch,
          fnCall, fnArgs, fnResult,
          middleware_configs, wsgi_app, appAdds, appPc, appReq, appLog>>

\* Python's None
None == "None"

\* Requests in flight through one middleware at the same time.
NReq == 2
Requests == 1..NReq

\* Response chains issued through one interceptor instance.
NChains == 2
Chains == 1..NChains

(***************************************************************************)
(* Python helpers                                                          *)
(***************************************************************************)

\* `x or default` for an Optional[str]: None and "" are falsy.
OrDefault(x, default) == IF x = None \/ x = "" THEN default ELSE x

\* str.startswith on character sequences
StartsWith(s, prefix) ==
    /\ Len(s) >= Len(prefix)
    /\ SubSeq(s, 1, Len(prefix)) = prefix

(***************************************************************************)
(* path.py                                                                 *)
(***************************************************************************)

\* fnmatch.fnmatch(name, pat) for patterns made of literals, '*' and '?'.
RECURSIVE fnmatch(_, _)
fnmatch(name, pat) ==
    IF pat = <<>> THEN name = <<>>
    ELSE IF Head(pat) = "*"
         THEN \/ fnmatch(name, Tail(pat))
              \/ (name # <<>> /\ fnmatch(Tail(name), pat))
    ELSE IF name = <<>> THEN FALSE
    ELSE IF Head(pat) = "?" THEN fnmatch(Tail(name), Tail(pat))
    ELSE Head(pat) = Head(name) /\ fnmatch(Tail(name), Tail(pat))

\* re.match(regex_pattern, request_path) for a pattern of literal characters:
\* the pattern must match at the start of the path, not all of it.
re_match(regex_pattern, request_path) == StartsWith(request_path, regex_pattern)

RegexPrefix == <<"r", "e", "g", "e", "x", ":">>

single_path_match(pattern, request_path) ==
    IF StartsWith(pattern, RegexPrefix)
    THEN re_match(SubSeq(pattern, Len(RegexPrefix) + 1, Len(pattern)), request_path)
    ELSE IF \E i \in 1..Len(pattern) : pattern[i] \in {"*", "?"}
    THEN fnmatch(request_path, pattern)
    ELSE pattern = request_path

\* A configured path is a record: isList says whether it is a list[str]
\* (patterns in .list) or a str (the pattern in .str).
\* A matcher that gates every path.
path_is_match_all(path, request_path) == TRUE

path_is_match(path, request_path) ==
    IF ~path.isList
    THEN single_path_match(path.str, request_path)
    ELSE \E i \in 1..Len(path.list) : single_path_match(path.list[i], request_path)

(***************************************************************************)
(* The middleware's configuration and inputs                               *)
(***************************************************************************)

Frameworks == {"fastapi", "flask"}

StrPath(p) == [isList |-> FALSE, str |-> p, list |-> <<>>]
ListPath(l) == [isList |-> TRUE, str |-> <<>>, list |-> l]

\* "/a", "/a*", ["/a", "regex:/c"]
ConfiguredPaths ==
    { StrPath(<<"/", "a">>),
      StrPath(<<"/", "a", "*">>),
      ListPath(<< <<"/", "a">>, <<"r", "e", "g", "e", "x", ":", "/", "c">> >>) }

\* "/a", "/b", "/a/x"
RequestPaths == { <<"/", "a">>, <<"/", "b">>, <<"/", "a", "/", "x">> }

\* The network the middleware was constructed with.
cfgNetwork == "bsc-mainnet"

\* The X-PAYMENT request header. kind "missing" is a request without the
\* header, "empty" the empty string, "not_base64" a value base64 cannot
\* decode, "not_json" the base64 of a text that is not JSON, "bad_fields" the
\* base64 of a JSON object PaymentPayload does not accept, "payload" the
\* base64 of the JSON of a PaymentPayload with the given scheme and network.
XPayment(kind, scheme, network) ==
    [kind |-> kind, scheme |-> scheme, network |-> network]

XPaymentValues ==
    { XPayment("missing", None, None),
      XPayment("empty", None, None),
      XPayment("not_base64", None, None),
      XPayment("not_json", None, None),
      XPayment("bad_fields", None, None),
      XPayment("payload", "exact", "bsc-mainnet"),
      XPayment("payload", "exact", "base") }

\* The requests: every path without a payment and with a well-formed one,
\* and "/a", which every configured pattern gates, with every header value.
RequestInputs ==
    [path : RequestPaths,
     xPayment : {XPayment("empty", None, None),
                 XPayment("payload", "exact", "bsc-mainnet")}]
    \cup [path : {<<"/", "a">>}, xPayment : XPaymentValues]

\* What facilitator.verify may return (VerifyResponse).
VerifyResponses ==
    { [is_valid |-> TRUE, invalid_reason |-> None] }
    \cup [is_valid : {FALSE}, invalid_reason : {None, "", "expired"}]

\* What facilitator.settle may return (SettleResponse).
SettleResponses ==
    { [success |-> TRUE, error_reason |-> None] }
    \cup [success : {FALSE}, error_reason : {None, "nsf"}]

\* Status codes of the response of the downstream handler of a gated path.
HandlerStatuses == {199, 200, 299, 300, 404}

\* Status codes of the response of the handler of a path that is not gated.
UngatedStatuses == {200, 404}

\* ResponseWrapper.status_code before start_response was called (None).
NoStatus == 0

\* No PaymentPayload / no PaymentRequirements (None).
NoPayment == [scheme |-> None, network |-> None]
NoRequirement == [scheme |-> None, network |-> None]

\* No response yet.
NoResponse == [status |-> NoStatus, error |-> None, headers |-> {}, body |-> None]

\* A response of the downstream handler.
HandlerResponse(status) ==
    [status |-> status, error |-> None, headers |-> {"Content-Type"},
     body |-> "handler"]

\* The middleware's local variables. verify_response and settle_response
\* are <<>> until the facilitator has returned, then <<the response>>.
\* state is the set of attributes set on request.state (Flask: g).
\* verify_args and settle_args are <<>> until the facilitator is called, then
\* <<the arguments>>.
NoLocal ==
    [payment |-> NoPayment, selected |-> NoRequirement,
     verify_args |-> <<>>, verify_response |-> <<>>, state |-> {},
     response |-> NoResponse, settle_args |-> <<>>, settle_response |-> <<>>,
     verify_raised |-> FALSE, loops |-> <<>>]

\* The Flask middleware runs a facilitator call on an event loop of its own:
\* asyncio.new_event_loop() before the call and loop.close() in the finally
\* clause after it. loops holds the loops a request created, in order.
NewLoop(loops) == IF framework = "flask" THEN Append(loops, "open") ELSE loops

CloseLoop(loops) ==
    IF framework = "flask" THEN [loops EXCEPT ![Len(loops)] = "closed"]
    ELSE loops

\* The arguments of facilitator.verify and facilitator.settle: the payment
\* object decoded in the call that serves request owner, and the requirement.
FacilitatorArgs(owner, payment, requirement) ==
    [owner |-> owner, payment |-> payment, requirement |-> requirement]

NoRequest == [path |-> <<>>, xPayment |-> XPayment("empty", None, None)]

(***************************************************************************)
(* common.py, encoding.py                                                  *)
(***************************************************************************)

\* request.headers.get("X-PAYMENT") without a default: a missing header is
\* not turned into the empty string.
HeaderGetNoDefault(h) == h

\* request.headers.get("X-PAYMENT", ""): the header's value, the empty
\* string when the request has no such header.
HeaderGet(h) == IF h.kind = "missing" THEN XPayment("empty", None, None) ELSE h

\* Only base64.b64decode raises.
DecodeRaisesBase64Only(h) == h.kind = "not_base64"

\* Whether json.loads(safe_base64_decode(h)) or PaymentPayload(**dict) raises.
DecodeRaises(h) == h.kind # "payload"

\* The PaymentPayload that decoding the header gives.
DecodePayment(h) == [scheme |-> h.scheme, network |-> h.network]

\* The first requirement with the payload's scheme, whatever its network.
RECURSIVE find_matching_scheme_only(_, _)
find_matching_scheme_only(payment_requirements, payment) ==
    IF payment_requirements = <<>> THEN NoRequirement
    ELSE LET req == Head(payment_requirements)
         IN IF req.scheme = payment.scheme
            THEN req
            ELSE find_matching_scheme_only(Tail(payment_requirements), payment)

\* The first requirement of the list with the payment's scheme and network,
\* None when there is none.
RECURSIVE find_matching_payment_requirements(_, _)
find_matching_payment_requirements(payment_requirements, payment) ==
    IF payment_requirements = <<>> THEN NoRequirement
    ELSE LET req == Head(payment_requirements)
         IN IF req.scheme = payment.scheme /\ req.network = payment.network
            THEN req
            ELSE find_matching_payment_requirements(
                     Tail(payment_requirements), payment)

(***************************************************************************)
(* fastapi/middleware.py and flask/middleware.py: one request              *)
(***************************************************************************)

\* The one-element list of requirements the middleware builds per request.
payment_requirements == << [scheme |-> "exact", network |-> cfgNetwork] >>

\* x402_response(error): the 402 carrying the requirements.
x402_response(error) ==
    [status |-> 402, error |-> error, headers |-> {"Content-Type"},
     body |-> "x402"]

\* The error text of an undecodable header.
InvalidHeaderError ==
    IF framework = "fastapi" THEN "Invalid payment header format"
    ELSE "Invalid payment header format: " \o "decode error"

\* A status that is 2xx for every code from 200 up.
Is2xxNoUpper(status) == status # NoStatus /\ status >= 200

\* The status check that decides whether to settle. In Flask the status is
\* None while start_response has not been called.
Is2xx(status) == status # NoStatus /\ status >= 200 /\ status < 300

MwLogged(r, events) == [mwLog EXCEPT ![r] = @ \o events]

MwReturn(r, response) ==
    /\ mwOut' = [mwOut EXCEPT ![r] = response]
    /\ mwPc' = [mwPc EXCEPT ![r] = "done"]

\* A request arrives and the middleware runs up to its first wait: the
\* downstream handler (path not gated), a 402, or facilitator.verify.
MwStart(r) ==
    /\ mwPc[r] = "idle"
    /\ \E req \in RequestInputs :
        /\ mwReq' = [mwReq EXCEPT ![r] = req]
        /\ IF ~path_is_match(cfgPath, req.path)
           THEN /\ mwPc' = [mwPc EXCEPT ![r] = "passthrough"]
                /\ mwLog' = MwLogged(r, <<"path-match", "handler">>)
                /\ UNCHANGED <<mwLocal, mwOut>>
           ELSE IF HeaderGet(req.xPayment).kind = "empty"
           THEN /\ MwReturn(r, x402_response("No X-PAYMENT header provided"))
                /\ mwLog' = MwLogged(r, <<"path-match">>)
                /\ UNCHANGED mwLocal
           ELSE LET payment_header == HeaderGet(req.xPayment)
                    payment == DecodePayment(payment_header)
                    selected == find_matching_payment_requirements(
                                    payment_requirements, payment)
                IN IF DecodeRaises(payment_header)
                   THEN /\ MwReturn(r, x402_response(InvalidHeaderError))
                        /\ mwLog' = MwLogged(r, <<"path-match", "decode">>)
                        /\ UNCHANGED mwLocal
                   ELSE IF selected = NoRequirement
                   THEN /\ MwReturn(r, x402_response(
                                "No matching payment requirements found"))
                        /\ mwLog' = MwLogged(r, <<"path-match", "decode">>)
                        /\ mwLocal' = [mwLocal EXCEPT ![r].payment = payment]
                   ELSE /\ mwPc' = [mwPc EXCEPT ![r] = "verify"]
                        /\ mwLog' = MwLogged(r, <<"path-match", "decode", "verify">>)
                        /\ mwLocal' = [mwLocal EXCEPT
                               ![r].payment = payment,
                               ![r].selected = selected,
                               ![r].verify_args =
                                   <<FacilitatorArgs(r, payment, selected)>>,
                               ![r].loops = NewLoop(@)]
                        /\ UNCHANGED mwOut
    /\ UNCHANGED <<appVars, fnVars, clVars, framework, cfgPath>>

\* The handler of a path that is not gated returns: its response is returned.
MwPassthroughReturn(r) ==
    /\ mwPc[r] = "passthrough"
    /\ \E status \in UngatedStatuses :
        /\ mwLocal' = [mwLocal EXCEPT ![r].response = HandlerResponse(status)]
        /\ MwReturn(r, HandlerResponse(status))
    /\ UNCHANGED <<appVars, fnVars, clVars, framework, cfgPath, mwReq, mwLog>>

\* verify said the payment is invalid: a 402 with the reason.
MwReject(r, vr) ==
    /\ mwLocal' = [mwLocal EXCEPT ![r].verify_response = <<vr>>,
                                  ![r].loops = CloseLoop(@)]
    /\ MwReturn(r, x402_response(
           "Invalid payment: " \o OrDefault(vr.invalid_reason, "Unknown error")))
    /\ UNCHANGED mwLog

\* verify said the payment is valid and the payment is settled at once,
\* before the downstream handler has run.
MwSettleBeforeHandler(r, vr) ==
    /\ mwLocal' = [mwLocal EXCEPT ![r].verify_response = <<vr>>,
                                  ![r].state = {"payment_details", "verify_response"}]
    /\ mwPc' = [mwPc EXCEPT ![r] = "settle"]
    /\ mwLog' = MwLogged(r, <<"settle">>)
    /\ UNCHANGED mwOut

\* verify said the payment is valid and the downstream handler is called with
\* nothing attached to the request context.
MwCallHandlerNoState(r, vr) ==
    /\ mwLocal' = [mwLocal EXCEPT ![r].verify_response = <<vr>>,
                                  ![r].loops = CloseLoop(@)]
    /\ mwPc' = [mwPc EXCEPT ![r] = "handler"]
    /\ mwLog' = MwLogged(r, <<"handler">>)
    /\ UNCHANGED mwOut

\* verify said the payment is valid: the details are attached to the request
\* context and the downstream handler is called.
MwCallHandler(r, vr) ==
    /\ mwLocal' = [mwLocal EXCEPT ![r].verify_response = <<vr>>,
                                  ![r].loops = CloseLoop(@),
                                  ![r].state = {"payment_details", "verify_response"}]
    /\ mwPc' = [mwPc EXCEPT ![r] = "handler"]
    /\ mwLog' = MwLogged(r, <<"handler">>)
    /\ UNCHANGED mwOut

\* The middleware goes on to the handler whatever verify said.
MwVerifyReturnUnchecked(r, vr) ==
    /\ mwPc[r] = "verify"
    /\ MwCallHandler(r, vr)
    /\ UNCHANGED <<appVars, fnVars, clVars, framework, cfgPath, mwReq>>

\* facilitator.verify returns.
MwVerifyReturn(r, vr) ==
    /\ mwPc[r] = "verify"
    /\ IF ~vr.is_valid THEN MwReject(r, vr) ELSE MwCallHandler(r, vr)
    /\ UNCHANGED <<appVars, fnVars, clVars, framework, cfgPath, mwReq>>

\* facilitator.verify raises and the middleware goes on as if the payment
\* had been verified.
MwVerifyRaiseIgnored(r) ==
    /\ mwPc[r] = "verify"
    /\ mwPc' = [mwPc EXCEPT ![r] = "handler"]
    /\ mwLocal' = [mwLocal EXCEPT ![r].verify_raised = TRUE,
                                  ![r].loops = CloseLoop(@)]
    /\ mwLog' = MwLogged(r, <<"handler">>)
    /\ UNCHANGED <<appVars, fnVars, clVars, framework, cfgPath, mwReq, mwOut>>

\* facilitator.verify raises and the loop it ran on is left open.
MwVerifyRaiseLeavesLoop(r) ==
    /\ mwPc[r] = "verify"
    /\ mwPc' = [mwPc EXCEPT ![r] = "raised"]
    /\ mwLocal' = [mwLocal EXCEPT ![r].verify_raised = TRUE]
    /\ UNCHANGED <<appVars, fnVars, clVars, framework, cfgPath, mwReq, mwLog, mwOut>>

\* facilitator.verify raises (a transport error, a reply that does not
\* parse): the exception leaves the middleware, in Flask after the finally
\* clause closed the loop.
MwVerifyRaise(r) ==
    /\ mwPc[r] = "verify"
    /\ mwPc' = [mwPc EXCEPT ![r] = "raised"]
    /\ mwLocal' = [mwLocal EXCEPT ![r].verify_raised = TRUE,
                                  ![r].loops = CloseLoop(@)]
    /\ UNCHANGED <<appVars, fnVars, clVars, framework, cfgPath, mwReq, mwLog, mwOut>>

\* facilitator.settle is called with the payment and the requirement some
\* request was verified with.
MwHandlerReturnAnyPayment(r, status) ==
    /\ mwPc[r] = "handler"
    /\ IF Is2xx(status)
       THEN /\ \E q \in Requests :
                  /\ mwLocal[q].verify_args # <<>>
                  /\ mwLocal' = [mwLocal EXCEPT
                         ![r].response = HandlerResponse(status),
                         ![r].settle_args = mwLocal[q].verify_args]
            /\ mwPc' = [mwPc EXCEPT ![r] = "settle"]
            /\ mwLog' = MwLogged(r, <<"settle">>)
            /\ UNCHANGED mwOut
       ELSE /\ mwLocal' = [mwLocal EXCEPT ![r].response = HandlerResponse(status)]
            /\ MwReturn(r, HandlerResponse(status))
            /\ UNCHANGED mwLog
    /\ UNCHANGED <<appVars, fnVars, clVars, framework, cfgPath, mwReq>>

\* The downstream handler of a gated path returns: a response that is not
\* 2xx is returned as it is, otherwise facilitator.settle is called with
\* the call's own payment and selected_payment_requirements.
MwHandlerReturn(r, status) ==
    /\ mwPc[r] = "handler"
    /\ IF Is2xx(status)
       THEN /\ mwLocal' = [mwLocal EXCEPT
                   ![r].response = HandlerResponse(status),
                   ![r].settle_args =
                       <<FacilitatorArgs(r, mwLocal[r].payment,
                                         mwLocal[r].selected)>>,
                   ![r].loops = NewLoop(@)]
            /\ mwPc' = [mwPc EXCEPT ![r] = "settle"]
            /\ mwLog' = MwLogged(r, <<"settle">>)
            /\ UNCHANGED mwOut
       ELSE /\ mwLocal' = [mwLocal EXCEPT ![r].response = HandlerResponse(status)]
            /\ MwReturn(r, HandlerResponse(status))
            /\ UNCHANGED mwLog
    /\ UNCHANGED <<appVars, fnVars, clVars, framework, cfgPath, mwReq>>

\* The downstream handler raises: the exception leaves the middleware.
MwHandlerRaise(r) ==
    /\ mwPc[r] \in {"handler", "passthrough"}
    /\ mwPc' = [mwPc EXCEPT ![r] = "raised"]
    /\ UNCHANGED <<appVars, fnVars, clVars, framework, cfgPath, mwReq, mwLocal, mwLog, mwOut>>

\* settle succeeded: the receipt header is put on the handler's response.
MwAttachReceipt(r) ==
    /\ MwReturn(r, [mwLocal[r].response EXCEPT
                        !.headers = @ \cup {"X-PAYMENT-RESPONSE"}])
    /\ mwLog' = MwLogged(r, <<"attach">>)

\* settle did not succeed and is called again.
MwSettleFailedRetried(r, sr) ==
    /\ mwLog' = MwLogged(r, <<"settle">>)
    /\ UNCHANGED <<mwOut, mwPc>>

\* settle did not succeed. FastAPI replaces the response by a 402; Flask
\* prints the reason and returns the handler's response.
MwSettleFailed(r, sr) ==
    /\ IF framework = "fastapi"
       THEN MwReturn(r, x402_response(
                "Settle failed: " \o OrDefault(sr.error_reason, "Unknown error")))
       ELSE MwReturn(r, mwLocal[r].response)
    /\ UNCHANGED mwLog

\* The receipt header is attached whatever settle said.
MwSettleReturnUnchecked(r, sr) ==
    /\ mwPc[r] = "settle"
    /\ mwLocal' = [mwLocal EXCEPT ![r].settle_response = <<sr>>]
    /\ MwAttachReceipt(r)
    /\ UNCHANGED <<appVars, fnVars, clVars, framework, cfgPath, mwReq>>

\* facilitator.settle returns.
MwSettleReturn(r, sr) ==
    /\ mwPc[r] = "settle"
    /\ mwLocal' = [mwLocal EXCEPT ![r].settle_response = <<sr>>,
                                  ![r].loops = CloseLoop(@)]
    /\ IF sr.success THEN MwAttachReceipt(r) ELSE MwSettleFailed(r, sr)
    /\ UNCHANGED <<appVars, fnVars, clVars, framework, cfgPath, mwReq>>

\* facilitator.settle raises and the exception leaves the middleware.
MwSettleRaisePropagates(r) ==
    /\ mwPc[r] = "settle"
    /\ mwPc' = [mwPc EXCEPT ![r] = "raised"]
    /\ UNCHANGED <<appVars, fnVars, clVars, framework, cfgPath, mwReq, mwLocal, mwLog, mwOut>>

\* facilitator.settle raises: FastAPI answers a 402 "Settle failed"; Flask
\* prints the error and returns the handler's response.
MwSettleRaise(r) ==
    /\ mwPc[r] = "settle"
    /\ IF framework = "fastapi"
       THEN MwReturn(r, x402_response("Settle failed"))
       ELSE MwReturn(r, mwLocal[r].response)
    /\ mwLocal' = [mwLocal EXCEPT ![r].loops = CloseLoop(@)]
    /\ UNCHANGED <<appVars, fnVars, clVars, framework, cfgPath, mwReq, mwLog>>

MwInit ==
    /\ framework \in Frameworks
    /\ cfgPath \in ConfiguredPaths
    /\ mwPc = [r \in Requests |-> "idle"]
    /\ mwReq = [r \in Requests |-> NoRequest]
    /\ mwLocal = [r \in Requests |-> NoLocal]
    /\ mwLog = [r \in Requests |-> <<>>]
    /\ mwOut = [r \in Requests |-> NoResponse]

MwNext ==
    \E r \in Requests :
        \/ MwStart(r)
        \/ MwPassthroughReturn(r)
        \/ \E vr \in VerifyResponses : MwVerifyReturn(r, vr)
        \/ MwVerifyRaise(r)
        \/ \E status \in HandlerStatuses \cup
                         (IF framework = "flask" THEN {NoStatus} ELSE {}) :
               MwHandlerReturn(r, status)
        \/ MwHandlerRaise(r)
        \/ \E sr \in SettleResponses : MwSettleReturn(r, sr)
        \/ MwSettleRaise(r)

(***************************************************************************)
(* The client's inputs                                                     *)
(***************************************************************************)

ClientKinds == {"httpx", "requests"}

\* x402Client.max_value when no cap is configured (None).
NoMaxValue == -1

MaxValues == {NoMaxValue, 1000}

\* A PaymentRequirements. max_amount_required is a string holding an
\* integer, kept as its sequence of decimal digits.
Requirement(scheme, network, amount) ==
    [scheme |-> scheme, network |-> network, max_amount_required |-> amount]

NoSelection == Requirement(None, None, <<>>)

\* The accepts lists a server's 402 body may carry.
AcceptsLists ==
    { <<>>,
      << Requirement("exact", "bsc-mainnet", <<1, 0, 0, 0>>) >>,
      << Requirement("exact", "bsc-mainnet", <<1, 0, 0, 1>>) >>,
      << Requirement("upto", "bsc-mainnet", <<1, 0>>),
         Requirement("exact", "base", <<9, 9, 9>>) >> }

\* A response as the interceptor sees it. content.json says whether the body
\* parses as an x402PaymentRequiredResponse; content.id tells bodies apart.
Body(id, json, accepts) == [id |-> id, json |-> json, accepts |-> accepts]

ClResponse(status, headers, content) ==
    [status |-> status, headers |-> headers, content |-> content]

NoClResponse == ClResponse(NoStatus, {}, Body(None, FALSE, <<>>))

\* The server's answer to the request as first sent.
FirstResponses ==
    { ClResponse(200, {}, Body("page", FALSE, <<>>)),
      ClResponse(404, {}, Body("not found", FALSE, <<>>)),
      ClResponse(402, {}, Body("payment required", FALSE, <<>>)) }
    \cup { ClResponse(402, {}, Body("challenge", TRUE, a)) : a \in AcceptsLists }

\* The server's answer to the retry that carries X-Payment.
RetryResponses ==
    { ClResponse(200, {"X-Payment-Response"}, Body("paid page", FALSE, <<>>)),
      ClResponse(500, {}, Body("server error", FALSE, <<>>)),
      ClResponse(402, {}, Body("challenge again", TRUE,
                   << Requirement("exact", "bsc-mainnet", <<1, 0, 0, 0>>) >>)) }

NoChain ==
    [first |-> NoClResponse,  \* the response to the request as first sent
     bypass |-> FALSE,        \* requests: send() found _is_retry set
     selections |-> 0,        \* calls of select_payment_requirements
     signatures |-> 0,        \* payment headers signed
     retries |-> 0,           \* retry requests sent
     second |-> NoClResponse, \* the response to the retry
     result |-> NoClResponse, \* the response handed to the caller
     exc |-> None,            \* the exception handed to the caller
     cause |-> None,          \* what raised
     prior |-> {}]            \* chains that ended with a paid retry before

(***************************************************************************)
(* clients/base.py                                                         *)
(***************************************************************************)

\* int(v) of a string of decimal digits.
RECURSIVE int(_)
int(v) ==
    IF v = <<>> THEN 0
    ELSE int(SubSeq(v, 1, Len(v) - 1)) * 10 + v[Len(v)]

\* No filter skips an entry.
FilterSkipsNothing(filter, value) == FALSE

\* "if scheme_filter and scheme != scheme_filter: continue", and the same
\* for the network: a filter that is None or empty skips nothing.
FilterSkips(filter, value) == filter \notin {None, ""} /\ value # filter

\* The cap is exceeded from the cap itself on.
ExceedsMaxOrEqual(max_amount, maxv) == max_amount >= maxv

\* "if max_amount > max_value"
ExceedsMax(max_amount, maxv) == max_amount > maxv

\* default_payment_requirements_selector: the requirement it returns, or the
\* exception it raises.
RECURSIVE default_payment_requirements_selector(_, _, _, _)
default_payment_requirements_selector(accepts, network_filter, scheme_filter, maxv) ==
    IF accepts = <<>>
    THEN [raises |-> "UnsupportedSchemeException", req |-> NoSelection]
    ELSE LET paymentRequirements == Head(accepts)
             scheme == paymentRequirements.scheme
             network == paymentRequirements.network
             rest == default_payment_requirements_selector(
                         Tail(accepts), network_filter, scheme_filter, maxv)
         IN IF FilterSkips(scheme_filter, scheme) THEN rest
            ELSE IF FilterSkips(network_filter, network) THEN rest
            ELSE IF scheme = "exact"
            THEN IF maxv # NoMaxValue
                    /\ ExceedsMax(int(paymentRequirements.max_amount_required), maxv)
                 THEN [raises |-> "PaymentAmountExceededError", req |-> NoSelection]
                 ELSE [raises |-> None, req |-> paymentRequirements]
            ELSE rest

\* x402Client.select_payment_requirements as the interceptors call it.
select_payment_requirements(accepts) ==
    default_payment_requirements_selector(accepts, None, None, max_value)

\* The subclasses of PaymentError.
PaymentErrors ==
    {"PaymentError", "PaymentAmountExceededError", "MissingRequestConfigError",
     "PaymentAlreadyAttemptedError"}

\* Every exception is wrapped in a plain PaymentError.
ReraisedAllWrapped(exc) == "PaymentError"

\* Every exception is raised again as it is.
ReraisedUnwrapped(exc) == exc

\* The except clauses of the interceptors: a PaymentError is raised again,
\* anything else is wrapped in a PaymentError.
Reraised(exc) == IF exc \in PaymentErrors THEN exc ELSE "PaymentError"

(***************************************************************************)
(* clients/httpx.py HttpxHooks.on_response and                             *)
(* clients/requests.py x402HTTPAdapter.send: one response chain            *)
(***************************************************************************)

ChainEnded(c) == chPc[c] \in {"done", "raised"}

ChainPaid(c) == chPc[c] = "done" /\ ch[c].retries > 0

\* The response is handed to the caller.
ClReturn(c, first, second, response) ==
    /\ chPc' = [chPc EXCEPT ![c] = "done"]
    /\ ch' = [ch EXCEPT ![c].first = first, ![c].second = second,
                        ![c].result = response]

\* The except clauses: the flag is cleared and the exception goes to the
\* caller.
ClRaise(c, first, exc, cause, selections, signatures) ==
    /\ is_retry' = FALSE
    /\ chPc' = [chPc EXCEPT ![c] = "raised"]
    /\ ch' = [ch EXCEPT ![c].first = first,
                        ![c].exc = Reraised(exc),
                        ![c].cause = cause,
                        ![c].selections = @ + selections,
                        ![c].signatures = @ + signatures]

\* The try block for a 402: parse the body, select, sign, mark the retry and
\* send it. signs says whether create_payment_header returns.
ClHandle402(c, first, response, signs) ==
    LET sel == select_payment_requirements(response.content.accepts)
    IN IF ~response.content.json
       THEN ClRaise(c, first, "ValidationError", "parse", 0, 0)
       ELSE IF sel.raises # None
       THEN ClRaise(c, first, sel.raises, "select", 1, 0)
       ELSE IF ~signs
       THEN ClRaise(c, first, "SigningError", "sign", 1, 0)
       ELSE /\ is_retry' = TRUE
            /\ chPc' = [chPc EXCEPT ![c] = "retry"]
            /\ ch' = [ch EXCEPT ![c].first = first,
                                ![c].selections = @ + 1,
                                ![c].signatures = @ + 1,
                                ![c].retries = @ + 1]

\* The caller issues a request. The requests adapter's send() looks at
\* _is_retry on entry; the httpx hook runs only once a response is there.
\* A chain starts when no other chain of the instance is under way.
ClStart(c) ==
    /\ chPc[c] = "idle"
    /\ \A d \in Chains \ {c} : chPc[d] = "idle" \/ ChainEnded(d)
    /\ chPc' = [chPc EXCEPT ![c] = "first"]
    /\ ch' = [ch EXCEPT ![c].prior = {d \in Chains : ChainPaid(d)},
                        ![c].bypass = (clientKind = "requests" /\ is_retry)]
    /\ is_retry' = IF clientKind = "requests" THEN FALSE ELSE is_retry
    /\ UNCHANGED <<appVars, fnVars, mwVars, clientKind, max_value>>

\* The first send fails: there is no response to handle.
ClFirstRaise(c) ==
    /\ chPc[c] = "first"
    /\ chPc' = [chPc EXCEPT ![c] = "raised"]
    /\ ch' = [ch EXCEPT ![c].exc = "ConnectError", ![c].cause = "send"]
    /\ UNCHANGED <<appVars, fnVars, mwVars, clientKind, max_value, is_retry>>

\* Every response is handled as a payment challenge, whatever its status.
ClFirstResponseHandlesAll(c, response, signs) ==
    /\ chPc[c] = "first"
    /\ IF ch[c].bypass \/ (clientKind = "httpx" /\ is_retry)
       THEN ClReturn(c, response, NoClResponse, response) /\ UNCHANGED is_retry
       ELSE ClHandle402(c, response, response, signs)
    /\ UNCHANGED <<appVars, fnVars, mwVars, clientKind, max_value>>

\* The response to the request as first sent arrives.
ClFirstResponse(c, response, signs) ==
    /\ chPc[c] = "first"
    /\ IF ch[c].bypass \/ response.status # 402
          \/ (clientKind = "httpx" /\ is_retry)
       THEN ClReturn(c, response, NoClResponse, response) /\ UNCHANGED is_retry
       ELSE ClHandle402(c, response, response, signs)
    /\ UNCHANGED <<appVars, fnVars, mwVars, clientKind, max_value>>

\* The retry's response is handled like a first response.
ClRetryResponseRehandled(c, response) ==
    /\ chPc[c] = "retry"
    /\ IF response.status # 402
       THEN ClReturn(c, ch[c].first, response, response) /\ UNCHANGED is_retry
       ELSE ClHandle402(c, ch[c].first, response, TRUE)
    /\ UNCHANGED <<appVars, fnVars, mwVars, clientKind, max_value>>

\* The original response is returned without the retry's data copied in.
ClRetryResponseNotCopied(c, response) ==
    /\ chPc[c] = "retry"
    /\ ClReturn(c, ch[c].first, response, ch[c].first)
    /\ UNCHANGED <<appVars, fnVars, mwVars, clientKind, max_value, is_retry>>

\* The retry's response arrives: its status, headers and content are copied
\* to the response the caller gets.
ClRetryResponse(c, response) ==
    /\ chPc[c] = "retry"
    /\ ClReturn(c, ch[c].first, response,
                ClResponse(response.status, response.headers, response.content))
    /\ UNCHANGED <<appVars, fnVars, mwVars, clientKind, max_value, is_retry>>

\* The exception of the retry's send goes to the caller with the flag set.
ClRetryRaiseFlagKept(c) ==
    /\ chPc[c] = "retry"
    /\ chPc' = [chPc EXCEPT ![c] = "raised"]
    /\ ch' = [ch EXCEPT ![c].exc = "PaymentError", ![c].cause = "retry"]
    /\ UNCHANGED <<appVars, fnVars, mwVars, clientKind, max_value, is_retry>>

\* The retry's send raises.
ClRetryRaise(c) ==
    /\ chPc[c] = "retry"
    /\ ClRaise(c, ch[c].first, "ConnectError", "retry", 0, 0)
    /\ UNCHANGED <<appVars, fnVars, mwVars, clientKind, max_value>>

ClInit ==
    /\ clientKind \in ClientKinds
    /\ max_value \in MaxValues
    /\ is_retry = FALSE
    /\ chPc = [c \in Chains |-> "idle"]
    /\ ch = [c \in Chains |-> NoChain]

ClNext ==
    \E c \in Chains :
        \/ ClStart(c)
        \/ ClFirstRaise(c)
        \/ \E response \in FirstResponses, signs \in BOOLEAN :
               ClFirstResponse(c, response, signs)
        \/ \E response \in RetryResponses : ClRetryResponse(c, response)
        \/ ClRetryRaise(c)

\* The caller issues a request while other chains of the same interceptor
\* instance may be under way (threads sharing an adapter, tasks sharing a
\* hook): send() and on_response read and write the one _is_retry field.
ClStartConc(c) ==
    /\ chPc[c] = "idle"
    /\ chPc' = [chPc EXCEPT ![c] = "first"]
    /\ ch' = [ch EXCEPT ![c].prior = {d \in Chains : ChainPaid(d)},
                        ![c].bypass = (clientKind = "requests" /\ is_retry)]
    /\ is_retry' = IF clientKind = "requests" THEN FALSE ELSE is_retry
    /\ UNCHANGED <<appVars, fnVars, mwVars, clientKind, max_value>>

ClNextConc ==
    \E c \in Chains :
        \/ ClStartConc(c)
        \/ ClFirstRaise(c)
        \/ \E response \in FirstResponses, signs \in BOOLEAN :
               ClFirstResponse(c, response, signs)
        \/ \E response \in RetryResponses : ClRetryResponse(c, response)
        \/ ClRetryRaise(c)

(***************************************************************************)
(* Strings of digits, decimal.Decimal and int() as common.py and types.py  *)
(* use them. A string is the sequence of its characters.                   *)
(***************************************************************************)

\* The characters of a string.
Chars(s) == [i \in 1..Len(s) |-> SubSeq(s, i, i)]

DigitChars == <<"0", "1", "2", "3", "4", "5", "6", "7", "8", "9">>

IsDigit(c) == \E i \in DOMAIN DigitChars : DigitChars[i] = c

DigitValue(c) == (CHOOSE i \in DOMAIN DigitChars : DigitChars[i] = c) - 1

DigitChar(n) == DigitChars[n + 1]

Zeros(k) == [i \in 1..k |-> 0]

RECURSIVE StripZeros(_)
StripZeros(ds) ==
    IF ds # <<>> /\ Head(ds) = 0 THEN StripZeros(Tail(ds)) ELSE ds

\* ds + 1 on a sequence of digits.
RECURSIVE Increment(_)
Increment(ds) ==
    IF ds = <<>> THEN <<1>>
    ELSE IF ds[Len(ds)] < 9
    THEN [ds EXCEPT ![Len(ds)] = @ + 1]
    ELSE Increment(SubSeq(ds, 1, Len(ds) - 1)) \o <<0>>

\* The sign and the digits of a string: s without a leading "+" or "-".
Unsigned(s) == IF s # <<>> /\ Head(s) \in {"+", "-"} THEN Tail(s) ELSE s

\* Whether int(s) returns for a string s made of a sign, digits and other
\* characters (no blanks, no underscores): an optional sign and at least
\* one digit, nothing else.
IntParses(s) ==
    /\ Unsigned(s) # <<>>
    /\ \A i \in DOMAIN Unsigned(s) : IsDigit(Unsigned(s)[i])

\* The precision of the default decimal context.
DecimalPrec == 28

\* A Decimal: sign, coefficient (digits, none for zero) and exponent, or a
\* special value; special "InvalidOperation" stands for the raised exception.
DecimalValue(special, sign, coeff, exp) ==
    [special |-> special, sign |-> sign, coeff |-> coeff, exp |-> exp]

\* Decimal(s) for a string s made of a sign, digits, points and letters (no
\* blanks, underscores or exponent).
Decimal(s) ==
    LET body == Unsigned(s)
        sign == IF s # <<>> /\ Head(s) = "-" THEN 1 ELSE 0
        points == {i \in DOMAIN body : body[i] = "."}
        p == IF points = {} THEN Len(body) + 1 ELSE CHOOSE i \in points : TRUE
        intpart == SubSeq(body, 1, p - 1)
        fracpart == SubSeq(body, p + 1, Len(body))
        digits == intpart \o fracpart
    IN IF body = <<"N", "a", "N">>
       THEN DecimalValue("NaN", sign, <<>>, 0)
       ELSE IF body = <<"I", "n", "f">>
       THEN DecimalValue("Infinity", sign, <<>>, 0)
       ELSE IF \/ Cardinality(points) > 1
               \/ digits = <<>>
               \/ \E i \in DOMAIN digits : ~IsDigit(digits[i])
       THEN DecimalValue("InvalidOperation", 0, <<>>, 0)
       ELSE DecimalValue(None, sign,
                StripZeros([i \in DOMAIN digits |-> DigitValue(digits[i])]),
                0 - Len(fracpart))

\* The context rounds a result to DecimalPrec digits, half to even.
Round(d) ==
    IF Len(d.coeff) <= DecimalPrec THEN d
    ELSE LET n == Len(d.coeff) - DecimalPrec
             kept == SubSeq(d.coeff, 1, DecimalPrec)
             dropped == SubSeq(d.coeff, DecimalPrec + 1, Len(d.coeff))
             restZero == \A i \in 2..n : dropped[i] = 0
             up == \/ dropped[1] > 5
                   \/ /\ dropped[1] = 5
                      /\ (~restZero \/ kept[DecimalPrec] % 2 = 1)
             inc == IF up THEN Increment(kept) ELSE kept
         IN IF Len(inc) > DecimalPrec
            THEN [d EXCEPT !.coeff = SubSeq(inc, 1, DecimalPrec),
                           !.exp = d.exp + n + 1]
            ELSE [d EXCEPT !.coeff = inc, !.exp = d.exp + n]

\* amount * Decimal(10**decimals)
TimesPowerOfTen(amount, decimals) ==
    IF amount.special # None \/ amount.coeff = <<>> THEN amount
    ELSE Round([amount EXCEPT !.coeff = @ \o Zeros(decimals)])

\* int(d) for a finite Decimal: the digits of the integer part (none for 0).
DecimalToInt(d) ==
    IF d.exp >= 0 /\ d.coeff # <<>> THEN d.coeff \o Zeros(d.exp)
    ELSE IF Len(d.coeff) + d.exp <= 0 THEN <<>>
    ELSE SubSeq(d.coeff, 1, Len(d.coeff) + d.exp)

\* str(n) of the integer with the given sign and digits.
IntToStr(sign, digits) ==
    IF digits = <<>> THEN <<"0">>
    ELSE (IF sign = 1 THEN <<"-">> ELSE <<>>)
         \o [i \in DOMAIN digits |-> DigitChar(digits[i])]

(***************************************************************************)
(* networks.py, chains.py, common.py process_price_to_atomic_amount and    *)
(* the middleware factories                                                *)
(***************************************************************************)

\* get_args(SupportedNetworks)
SupportedNetworks == {"base", "bsc-mainnet", "avalanche-fuji", "avalanche"}

NETWORK_TO_ID ==
    [n \in SupportedNetworks |->
        CASE n = "bsc-mainnet" -> "84532"
          [] n = "base" -> "8453"
          [] n = "avalanche-fuji" -> "43113"
          [] n = "avalanche" -> "43114"]

\* The chains KNOWN_TOKENS has a usdc entry for; its decimals are 6 on each.
KNOWN_TOKENS == {"84532", "8453", "43113", "43114"}

TokenDecimals == 6

\* The networks a factory may be given: the supported ones, an unknown
\* name, a chain id written as a string, and a chain id without tokens.
FnNetworks == SupportedNetworks \cup {"ethereum", "84532", "1"}

\* get_chain_id: a network that int() accepts is returned as it is.
get_chain_id(network) ==
    IF IntParses(Chars(network)) THEN [raises |-> None, id |-> network]
    ELSE IF network \notin DOMAIN NETWORK_TO_ID
    THEN [raises |-> "ValueError", id |-> None]
    ELSE [raises |-> None, id |-> NETWORK_TO_ID[network]]

\* A Price: a str or an int (Money, text is str(price)), a TokenAmount (text
\* is its amount) or a value of another type.
Price(type, text) == [type |-> type, text |-> Chars(text)]

PriceResult(raises, amount) == [raises |-> raises, amount |-> amount]

\* process_price_to_atomic_amount: the amount string it returns or the
\* exception that leaves it.
process_price_to_atomic_amount(price, network) ==
    IF price.type \in {"str", "int"}
    THEN LET text == IF price.text # <<>> /\ Head(price.text) = "$"
                     THEN Tail(price.text) ELSE price.text
             amount == Decimal(text)
             chain == get_chain_id(network)
             atomic_amount == TimesPowerOfTen(amount, TokenDecimals)
         IN IF amount.special = "InvalidOperation"
            THEN PriceResult("InvalidOperation", <<>>)
            ELSE IF chain.raises # None \/ chain.id \notin KNOWN_TOKENS
            THEN PriceResult("ValueError", <<>>)
            ELSE IF amount.special = "NaN"
            THEN PriceResult("ValueError", <<>>)
            ELSE IF amount.special = "Infinity"
            THEN PriceResult("OverflowError", <<>>)
            ELSE PriceResult(None, IntToStr(atomic_amount.sign,
                                            DecimalToInt(atomic_amount)))
    ELSE IF price.type = "TokenAmount"
    THEN PriceResult(None, price.text)
    ELSE PriceResult("ValueError", <<>>)

\* The factory goes on to the price whatever the network is.
NetworkUnsupportedNever(network) == FALSE

\* "if network not in supported_networks: raise ValueError"
NetworkUnsupported(network) == network \notin SupportedNetworks

\* require_payment / PaymentMiddleware._create_middleware up to the
\* definition of the middleware function: the network is checked and the
\* price resolved.
require_payment(price, network) ==
    IF NetworkUnsupported(network) THEN PriceResult("ValueError", <<>>)
    ELSE IF process_price_to_atomic_amount(price, network).raises # None
    THEN PriceResult("ValueError", <<>>)
    ELSE process_price_to_atomic_amount(price, network)

\* Whether PaymentRequirements(network=..., max_amount_required=...) raises:
\* network is a SupportedNetworks literal and the validator of
\* max_amount_required calls int().
PaymentRequirementsRaises(network, max_amount_required) ==
    network \notin SupportedNetworks \/ ~IntParses(max_amount_required)

\* PaymentRequirements.validate_max_amount_required and
\* EIP3009Authorization.validate_value: int(v) must return.
validate_max_amount_required(v) ==
    IF IntParses(v) THEN None ELSE "ValidationError"

validate_value(v) == IF IntParses(v) THEN None ELSE "ValidationError"

(***************************************************************************)
(* paywall.py is_browser_request and the body x402_response gives a 402    *)
(***************************************************************************)

\* sub in s, for two strings.
Contains(s, sub) ==
    \E i \in 1..(Len(s) - Len(sub) + 1) : SubSeq(s, i, i + Len(sub) - 1) = sub

\* k.lower() for the header names a request carries.
lower(k) ==
    CASE k \in {"Accept", "accept"} -> "accept"
      [] k \in {"User-Agent", "user-agent"} -> "user-agent"
      [] k \in {"X-Payment", "x-payment"} -> "x-payment"

\* headers_lower.get(name, ""), headers being a sequence of name and value
\* pairs with no name twice.
headers_lower_get(headers, name) ==
    IF \E i \in DOMAIN headers : lower(headers[i][1]) = name
    THEN headers[CHOOSE i \in DOMAIN headers : lower(headers[i][1]) = name][2]
    ELSE ""

\* A request is a browser's whenever it accepts text/html.
is_browser_request_accept_only(headers) ==
    Contains(headers_lower_get(headers, "accept"), "text/html")

is_browser_request(headers) ==
    /\ Contains(headers_lower_get(headers, "accept"), "text/html")
    /\ Contains(headers_lower_get(headers, "user-agent"), "Mozilla")

x402_VERSION == 1

\* x402_response(error) of either middleware, as the status, the
\* Content-Type and the body it answers with: the custom paywall or the
\* one get_paywall_html builds, or the x402PaymentRequiredResponse.
x402_response_body(headers, custom_paywall_html, accepts, error) ==
    IF is_browser_request(headers)
    THEN [status |-> 402,
          content_type |-> "text/html; charset=utf-8",
          body |-> [kind |-> "html",
                    html |-> IF custom_paywall_html \notin {None, ""}
                             THEN custom_paywall_html ELSE "get_paywall_html"]]
    ELSE [status |-> 402,
          content_type |-> "application/json",
          body |-> [kind |-> "json", x402Version |-> x402_VERSION,
                    accepts |-> accepts, error |-> error]]

\* The resource URL a middleware advertises. FastAPI: resource or
\* str(request.url). Flask: the URL rebuilt from X-Original-URI when the
\* header is there and not empty, else config["resource"] or request.url.
resource_url(fw, resource, original_uri, request) ==
    IF fw = "fastapi"
    THEN IF resource \notin {None, ""} THEN resource ELSE request.url
    ELSE IF original_uri \notin {None, ""}
    THEN request.scheme \o "://" \o request.host \o original_uri
    ELSE IF resource \notin {None, ""} THEN resource ELSE request.url

(***************************************************************************)
(* exact.py: encode_payment, decode_payment, sign_payment_header, and      *)
(* clients/base.py create_payment_header                                   *)
(***************************************************************************)

\* Python values of a payload: a str, an int (v is its decimal rendering),
\* None, and a bytes-like object (bytes, HexBytes; v is its hex digits).
PyStr(v) == [t |-> "str", v |-> v]
PyInt(v) == [t |-> "int", v |-> v]
PyNone == [t |-> "None", v |-> <<>>]
PyBytes(v) == [t |-> "bytes", v |-> v]

\* Every value is written as the string of its text.
JsonOfStr(value) == [j |-> "string", v |-> value.v]

\* json.dumps(value, default=default): the JSON token of a value. A
\* bytes-like object goes through default(), which returns obj.hex().
JsonOf(value) ==
    CASE value.t = "str" -> [j |-> "string", v |-> value.v]
      [] value.t = "int" -> [j |-> "number", v |-> value.v]
      [] value.t = "None" -> [j |-> "null", v |-> <<>>]
      [] value.t = "bytes" -> [j |-> "string", v |-> value.v]

\* json.loads: the value of a JSON token.
PyOf(token) ==
    CASE token.j = "string" -> PyStr(token.v)
      [] token.j = "number" -> PyInt(token.v)
      [] token.j = "null" -> PyNone

\* safe_base64_encode / safe_base64_decode of a text.
safe_base64_encode(data) == [b64 |-> data]
safe_base64_decode(data) == data.b64

\* encode_payment: a payload is a dict from keys to values.
encode_payment(payment_payload) ==
    safe_base64_encode([k \in DOMAIN payment_payload |->
                           JsonOf(payment_payload[k])])

decode_payment(encoded_payment) ==
    LET text == safe_base64_decode(encoded_payment)
    IN [k \in DOMAIN text |-> PyOf(text[k])]

\* The clock counts in ticks; int(time.time()) is the whole seconds.
TicksPerSecond == 2

time_int(t) == t \div TicksPerSecond

RECURSIVE NatDigits(_)
NatDigits(n) == IF n < 10 THEN <<n>> ELSE NatDigits(n \div 10) \o <<n % 10>>

\* str(n) of an int.
str(n) ==
    IF n < 0 THEN IntToStr(1, NatDigits(0 - n))
    ELSE IntToStr(0, StripZeros(NatDigits(n)))

\* The int() of a string of digits with an optional sign, as a number.
IntOfStr(s) ==
    LET n == int([i \in DOMAIN Unsigned(s) |-> DigitValue(Unsigned(s)[i])])
    IN IF s # <<>> /\ Head(s) = "-" THEN 0 - n ELSE n

\* A PaymentRequirements as create_payment_header reads it.
SigningRequirement(scheme, network, amount, timeout, pay_to) ==
    [scheme |-> scheme, network |-> network, max_amount_required |-> amount,
     max_timeout_seconds |-> timeout, pay_to |-> pay_to]

\* The dict create_payment_header builds: t1 and t2 are the clock at its two
\* calls of time.time(), nonce what generate_nonce() returned.
\* The header pays the signer's own address.
unsigned_header_to_self(address, requirements, t1, t2, nonce) ==
    [x402Version |-> PyInt(Chars("1")),
     scheme |-> PyStr(Chars(requirements.scheme)),
     network |-> PyStr(Chars(requirements.network)),
     signature |-> PyNone,
     from |-> PyStr(Chars(address)),
     to |-> PyStr(Chars(address)),
     value |-> PyStr(requirements.max_amount_required),
     validAfter |-> PyStr(str(time_int(t1) - 60)),
     validBefore |-> PyStr(str(time_int(t2)
                               + requirements.max_timeout_seconds)),
     nonce |-> PyStr(nonce)]

\* address is self.account.address.
unsigned_header(address, requirements, t1, t2, nonce) ==
    [x402Version |-> PyInt(Chars("1")),
     scheme |-> PyStr(Chars(requirements.scheme)),
     network |-> PyStr(Chars(requirements.network)),
     signature |-> PyNone,
     from |-> PyStr(Chars(address)),
     to |-> PyStr(Chars(requirements.pay_to)),
     value |-> PyStr(requirements.max_amount_required),
     validAfter |-> PyStr(str(time_int(t1) - 60)),
     validBefore |-> PyStr(str(time_int(t2)
                               + requirements.max_timeout_seconds)),
     nonce |-> PyStr(nonce)]

\* secrets.token_hex(NonceBytes): two hex digits per byte of entropy.
NonceBytes == 32

token_hex(entropy) == [i \in 1..(2 * NonceBytes) |-> entropy]

\* generate_nonce returning one value whatever the entropy.
generate_nonce_fixed(entropy) == token_hex("0")

\* x402Client.generate_nonce
generate_nonce(entropy) == token_hex(entropy)

\* What sign_payment_header returns or raises, and the message of the typed
\* data it gave account.sign_typed_data.
SignResult(raises, encoded, message) ==
    [raises |-> raises, encoded |-> encoded, message |-> message]

NoEncoded == safe_base64_encode(<<>>)

\* bytes.fromhex(s) for a string of hex digits.
bytes_fromhex(s) == PyBytes(s)

\* typed_data["message"]
typed_data_message(auth) ==
    [from |-> auth.from.v, to |-> auth.to.v,
     value |-> IntOfStr(auth.value.v),
     validAfter |-> IntOfStr(auth.validAfter.v),
     validBefore |-> IntOfStr(auth.validBefore.v),
     nonce |-> bytes_fromhex(auth.nonce.v)]

\* sign_payment_header: signs says whether account.sign_typed_data returns.
\* The signature and the nonce are written back as 0x-prefixed hex and the
\* header is encoded. The requirement's scheme is not looked at.
sign_payment_header(requirements, header, signs) ==
    IF ~signs
    THEN SignResult("SigningError", NoEncoded, typed_data_message(header))
    ELSE SignResult(None,
                    encode_payment(
                        [header EXCEPT
                            !.signature = PyStr(Chars("0x5167")),
                            !.nonce = PyStr(<<"0", "x">> \o header.nonce.v)]),
                    typed_data_message(header))

\* create_payment_header
create_payment_header(address, requirements, t1, t2, nonce, signs) ==
    sign_payment_header(requirements,
                        unsigned_header(address, requirements, t1, t2, nonce),
                        signs)

(***************************************************************************)
(* Calls of default_payment_requirements_selector (clients/base.py) and    *)
(* find_matching_payment_requirements (common.py) on their own             *)
(***************************************************************************)

\* The longest list of requirements passed to a call.
MaxLen == 3

\* The entries of the lists: at the cap, above it, not "exact" and above the
\* cap, below the cap.
FnRequirements ==
    { Requirement("exact", "bsc-mainnet", <<1, 0, 0, 0>>),
      Requirement("exact", "base", <<1, 0, 0, 1>>),
      Requirement("upto", "bsc-mainnet", <<2, 0, 0, 0>>),
      Requirement("exact", "bsc-mainnet", <<9, 9, 9>>) }

FnLists == UNION { [1..k -> FnRequirements] : k \in 0..MaxLen }

FnSchemeFilters == {None, "", "exact", "upto"}
FnNetworkFilters == {None, "", "bsc-mainnet", "base"}
FnMaxValues == {NoMaxValue, 0, 1000}

\* The PaymentPayloads matched against a list.
FnPayments ==
    { [scheme |-> "exact", network |-> "bsc-mainnet"],
      [scheme |-> "exact", network |-> "base"],
      [scheme |-> "upto", network |-> "base"] }

NoFnResult == [raises |-> None, req |-> NoSelection]

\* x402Client.default_payment_requirements_selector(accepts, network_filter,
\* scheme_filter, max_value) is called.
FnSelect ==
    /\ fnCall = "none"
    /\ fnArgs.fn = "selector"
    /\ fnCall' = "selector"
    /\ fnResult' = default_payment_requirements_selector(
                       fnArgs.accepts, fnArgs.network_filter,
                       fnArgs.scheme_filter, fnArgs.max_value)
    /\ UNCHANGED <<appVars, fnArgs, mwVars, clVars>>

\* find_matching_payment_requirements(payment_requirements, payment) is
\* called.
FnFindMatching ==
    /\ fnCall = "none"
    /\ fnArgs.fn = "find_matching"
    /\ fnCall' = "find_matching"
    /\ fnResult' = [raises |-> None,
                    req |-> find_matching_payment_requirements(
                                fnArgs.accepts, fnArgs.payment)]
    /\ UNCHANGED <<appVars, fnArgs, mwVars, clVars>>

\* The calls: a function and its arguments.
SelectorCalls ==
    [fn : {"selector"},
     accepts : FnLists,
     network_filter : FnNetworkFilters,
     scheme_filter : FnSchemeFilters,
     max_value : FnMaxValues]

FindMatchingCalls ==
    [fn : {"find_matching"}, accepts : FnLists, payment : FnPayments]

\* The prices given to a factory.
FnPrices ==
    { Price("str", "$0.001"), Price("str", "$3.10"), Price("str", "0.5"),
      Price("str", "$-1"), Price("str", "$abc"), Price("str", "$"),
      Price("str", "$NaN"), Price("str", "$Inf"), Price("str", "$1.2.3"),
      Price("int", "1"),
      Price("TokenAmount", "1000"), Price("TokenAmount", "-5"),
      Price("float", "0.01") }

FactoryCalls == [fn : {"require_payment"}, price : FnPrices, network : FnNetworks]

\* The most payment headers one signer is asked for.
MaxHeaders == 2

\* What the CSPRNG may return, one hex digit standing for each draw.
NonceDraws == {"a", "b"}

FnTimeouts == {0 - 1, 0, 1, 60}

FnClock == 200..203

CreateHeaderCalls ==
    [fn : {"create_payment_header"},
     address : {"0xPayer"},
     requirements : { SigningRequirement(scheme, "bsc-mainnet",
                                         Chars(amount), timeout, pay_to) :
                          scheme \in {"exact", "upto"},
                          amount \in {"1000", "25"},
                          timeout \in FnTimeouts,
                          pay_to \in {"0xPayTo", "0xPayer"} },
     t1 : FnClock,
     gap : {0, 1},
     signs : BOOLEAN]

\* USD decimals with at most TokenDecimals fractional digits; the last three
\* have 28, 29 and 29 significant digits.
UsdDecimals ==
    { "0", "1", "0.001", "3.10", "0.000001", "123.456789", "-1.5", ".5", "5.",
      "1234567890123456789012.456789",
      "12345678901234567890123.456789",
      "10000000000000000000000.000000" }

UsdPrices == { Price("str", "$" \o d) : d \in UsdDecimals }

\* The USD decimals on the supported networks, and the prices given to a
\* factory on every network.
ProcessPriceCalls ==
    [fn : {"process_price"}, price : UsdPrices, network : SupportedNetworks]
        \cup [fn : {"process_price"}, price : FnPrices, network : FnNetworks]

\* Payment payloads given to encode_payment: the header of
\* create_payment_header with the nonce as a 0x-prefixed hex string, as a
\* bare hex string or as bytes, and the signature absent, as a 0x-prefixed
\* hex string or as HexBytes.
RoundTripPayloads ==
    { [unsigned_header("0xPayer",
                       SigningRequirement("exact", "bsc-mainnet",
                                          Chars("1000"), 60, "0xPayTo"),
                       200, 200, <<>>)
          EXCEPT !.nonce = nonce, !.signature = signature] :
        nonce \in { PyStr(<<"0", "x">> \o token_hex("a")),
                    PyStr(token_hex("a")),
                    PyBytes(token_hex("a")) },
        signature \in { PyNone, PyStr(Chars("0x5167")),
                        PyBytes(Chars("5167")) } }

RoundTripCalls == [fn : {"encode_payment"}, payload : RoundTripPayloads]

\* Strings given as max_amount_required or as value.
FnAmountStrings ==
    {"0", "1000", "007", "-5", "-0", "+5", "", "abc", "5.0", "1e3", "-", "0x10"}

ValidateCalls ==
    [fn : {"validate"},
     field : {"max_amount_required", "value"},
     v : FnAmountStrings]

\* Requests that get a 402: the Accept and the User-Agent they carry (None
\* for a header that is absent) and how the framework spells header names,
\* lower case in Starlette and capitalised in Werkzeug.
FnAccepts ==
    {None, "", "text/html", "text/html,application/xhtml+xml;q=0.9",
     "application/json", "*/*", "TEXT/HTML"}

FnUserAgents ==
    {None, "Mozilla/5.0 (X11; Linux x86_64)", "curl/8.5.0", "mozilla/5.0",
     "python-httpx/0.27 (like Mozilla)"}

RequestHeaders(fw, accept, user_agent) ==
    (IF accept = None THEN <<>>
     ELSE << <<IF fw = "fastapi" THEN "accept" ELSE "Accept", accept>> >>)
    \o (IF user_agent = None THEN <<>>
        ELSE << <<IF fw = "fastapi" THEN "user-agent" ELSE "User-Agent",
                  user_agent>> >>)

ResponseCalls ==
    [fn : {"x402_response"},
     framework : Frameworks,
     accept : FnAccepts,
     user_agent : FnUserAgents,
     custom_paywall_html : {None, "", "<html>custom</html>"},
     error : {"No X-PAYMENT header provided", "Settle failed"}]

\* A request behind a proxy, the configured resource and the X-Original-URI
\* header (None when absent).
ProxiedRequest ==
    [scheme |-> "http", host |-> "10.0.0.5:8000", url |-> "http://10.0.0.5:8000/a"]

ResourceCalls ==
    [fn : {"resource_url"},
     framework : Frameworks,
     resource : {None, "", "https://api.example.com/weather"},
     original_uri : {None, "", "/v1/weather?city=x"}]

FnCalls ==
    SelectorCalls \cup FindMatchingCalls \cup FactoryCalls \cup ValidateCalls
        \cup ResourceCalls
        \cup ResponseCalls
        \cup CreateHeaderCalls \cup ProcessPriceCalls \cup RoundTripCalls

FnInit ==
    /\ fnCall = "none"
    /\ fnArgs \in FnCalls
    /\ fnResult = NoFnResult

\* A middleware factory is called: it raises or returns the middleware.
FnRequirePayment ==
    /\ fnCall = "none"
    /\ fnArgs.fn = "require_payment"
    /\ fnCall' = "require_payment"
    /\ fnResult' = require_payment(fnArgs.price, fnArgs.network)
    /\ UNCHANGED <<appVars, fnArgs, mwVars, clVars>>

\* The middleware the factory returned serves a request for a gated path:
\* it builds the PaymentRequirements from the network and the resolved
\* price.
FnServeRequest ==
    /\ fnCall = "require_payment"
    /\ fnResult.raises = None
    /\ fnCall' = "middleware"
    /\ fnResult' = [raises |-> IF PaymentRequirementsRaises(
                                      fnArgs.network, fnResult.amount)
                               THEN "ValidationError" ELSE None,
                    amount |-> fnResult.amount]
    /\ UNCHANGED <<appVars, fnArgs, mwVars, clVars>>

\* The headers the signer has produced so far, each with the entropy its
\* call drew.
Produced == IF fnCall = "create_payment_header" THEN fnResult.produced ELSE <<>>

\* x402Client.create_payment_header(requirements) is called: the clock is
\* read twice, gap ticks apart, and the CSPRNG is drawn from once.
FnCreatePaymentHeader ==
    /\ fnArgs.fn = "create_payment_header"
    /\ fnCall \in {"none", "create_payment_header"}
    /\ Len(Produced) < MaxHeaders
    /\ \E entropy \in NonceDraws :
          LET r == create_payment_header(
                       fnArgs.address, fnArgs.requirements, fnArgs.t1,
                       fnArgs.t1 + fnArgs.gap, generate_nonce(entropy),
                       fnArgs.signs)
          IN fnResult' =
                 [raises |-> r.raises,
                  encoded |-> r.encoded,
                  message |-> r.message,
                  produced |->
                      IF r.raises = None
                      THEN Append(Produced, [entropy |-> entropy,
                                             header |-> r.encoded])
                      ELSE Produced]
    /\ fnCall' = "create_payment_header"
    /\ UNCHANGED <<appVars, fnArgs, mwVars, clVars>>

\* process_price_to_atomic_amount(price, network) is called.
FnProcessPrice ==
    /\ fnCall = "none"
    /\ fnArgs.fn = "process_price"
    /\ fnCall' = "process_price"
    /\ fnResult' = process_price_to_atomic_amount(fnArgs.price, fnArgs.network)
    /\ UNCHANGED <<appVars, fnArgs, mwVars, clVars>>

\* encode_payment(payload) is called.
FnEncodePayment ==
    /\ fnCall = "none"
    /\ fnArgs.fn = "encode_payment"
    /\ fnCall' = "encode_payment"
    /\ fnResult' = [raises |-> None, encoded |-> encode_payment(fnArgs.payload)]
    /\ UNCHANGED <<appVars, fnArgs, mwVars, clVars>>

\* decode_payment is called with what encode_payment returned.
FnDecodePayment ==
    /\ fnCall = "encode_payment"
    /\ fnCall' = "decode_payment"
    /\ fnResult' = [raises |-> None,
                    encoded |-> fnResult.encoded,
                    decoded |-> decode_payment(fnResult.encoded)]
    /\ UNCHANGED <<appVars, fnArgs, mwVars, clVars>>

\* PaymentRequirements(max_amount_required=v) or EIP3009Authorization(value=v)
\* is constructed.
FnValidate ==
    /\ fnCall = "none"
    /\ fnArgs.fn = "validate"
    /\ fnCall' = "validate"
    /\ fnResult' =
           [raises |-> IF fnArgs.field = "max_amount_required"
                       THEN validate_max_amount_required(Chars(fnArgs.v))
                       ELSE validate_value(Chars(fnArgs.v))]
    /\ UNCHANGED <<appVars, fnArgs, mwVars, clVars>>

\* A middleware answers a request with x402_response(error).
FnX402Response ==
    /\ fnCall = "none"
    /\ fnArgs.fn = "x402_response"
    /\ fnCall' = "x402_response"
    /\ fnResult' = x402_response_body(
                       RequestHeaders(fnArgs.framework, fnArgs.accept,
                                      fnArgs.user_agent),
                       fnArgs.custom_paywall_html,
                       << Requirement("exact", "bsc-mainnet", <<1, 0, 0, 0>>) >>,
                       fnArgs.error)
    /\ UNCHANGED <<appVars, fnArgs, mwVars, clVars>>

\* A middleware computes the resource URL of a request to a gated path.
FnResourceUrl ==
    /\ fnCall = "none"
    /\ fnArgs.fn = "resource_url"
    /\ fnCall' = "resource_url"
    /\ fnResult' = [raises |-> None,
                    resource |-> resource_url(fnArgs.framework, fnArgs.resource,
                                              fnArgs.original_uri,
                                              ProxiedRequest)]
    /\ UNCHANGED <<appVars, fnArgs, mwVars, clVars>>

FnNext ==
    \/ FnResourceUrl
    \/ FnX402Response
    \/ FnValidate
    \/ FnEncodePayment
    \/ FnDecodePayment
    \/ FnProcessPrice
    \/ FnSelect
    \/ FnFindMatching
    \/ FnRequirePayment
    \/ FnServeRequest
    \/ FnCreatePaymentHeader

(***************************************************************************)
(* flask/middleware.py: PaymentMiddleware.add, _apply_middleware and a     *)
(* request through the app's WSGI chain                                    *)
(***************************************************************************)

\* The most calls of PaymentMiddleware.add on one app.
MaxAdds == 3

\* A configuration given to add: the path, the network and the price.
AppConfig(path, network, price) ==
    [path |-> StrPath(Chars(path)), network |-> network, price |-> price]

AppConfigs ==
    { AppConfig("/a", "bsc-mainnet", Price("str", "$0.001")),
      AppConfig("/b", "bsc-mainnet", Price("str", "$0.001")),
      AppConfig("/a", "ethereum", Price("str", "$0.001")),
      AppConfig("/b", "bsc-mainnet", Price("float", "0.01")) }

\* Whether _create_middleware(config, next_app) raises ValueError.
create_middleware_raises(config) ==
    require_payment(config.price, config.network).raises # None

\* n, n - 1, ..., 1: the middlewares of configurations 1..n, the last one
\* outermost.
RECURSIVE Wrapped(_)
Wrapped(n) == IF n = 0 THEN <<>> ELSE <<n>> \o Wrapped(n - 1)

\* _apply_middleware: starting from app.wsgi_app as it is, every
\* configuration of middleware_configs is wrapped around it in turn;
\* app.wsgi_app is assigned when none raised.
apply_middleware(configs, current_wsgi_app) ==
    IF \E i \in DOMAIN configs : create_middleware_raises(configs[i])
    THEN [raises |-> "ValueError", wsgi_app |-> current_wsgi_app]
    ELSE [raises |-> None,
          wsgi_app |-> Wrapped(Len(configs)) \o current_wsgi_app]

\* What a WSGI server does with the list of headers start_response is given:
\* it keeps the list itself (wsgiref, werkzeug) or copies its contents at
\* once (gunicorn, waitress). PEP 3333 leaves it open.
WsgiServers == {"keeps", "copies"}

\* The request through the chain: pos is the middleware reached, entered the
\* middlewares waiting for next_app (innermost first), headers the list the
\* response was started with (every ResponseWrapper.headers is this list),
\* stored what the server copied from it, client the headers sent with the
\* body.
NoAppRequest ==
    [path |-> <<>>, pos |-> 0, entered |-> <<>>, status |-> NoStatus,
     server |-> "keeps", headers |-> <<>>, stored |-> <<>>, client |-> <<>>]

AppInit ==
    /\ middleware_configs = <<>>
    /\ wsgi_app = <<>>
    /\ appAdds = <<>>
    /\ appPc = "idle"
    /\ appReq = NoAppRequest
    /\ appLog = <<>>

\* PaymentMiddleware.add(config): the configuration is appended, then
\* _apply_middleware runs. appAdds records the call, what it raised, and the
\* list and the chain before it.
AppAdd(config) ==
    /\ appPc = "idle"
    /\ Len(appAdds) < MaxAdds
    /\ LET configs == Append(middleware_configs, config)
           applied == apply_middleware(configs, wsgi_app)
       IN /\ middleware_configs' = configs
          /\ wsgi_app' = applied.wsgi_app
          /\ appAdds' = Append(appAdds,
                               [config |-> config,
                                raises |-> applied.raises,
                                configs_before |-> middleware_configs,
                                wsgi_app_before |-> wsgi_app])
    /\ UNCHANGED <<appPc, appReq, appLog, fnVars, mwVars, clVars>>

\* A request for a path arrives at app.wsgi_app with an X-PAYMENT header
\* that decodes and matches the requirements.
AppRequest(path, server) ==
    /\ appPc = "idle"
    /\ appAdds # <<>>
    /\ appPc' = "down"
    /\ appReq' = [NoAppRequest EXCEPT !.path = path, !.pos = 1,
                                      !.server = server]
    /\ UNCHANGED <<middleware_configs, wsgi_app, appAdds, appLog,
                   fnVars, mwVars, clVars>>

\* The middleware at appReq.pos is called: a path that does not match goes
\* to next_app; otherwise facilitator.verify is called, and next_app only
\* when the payment is valid, a 402 being returned when it is not.
AppMiddleware(valid) ==
    /\ appPc = "down"
    /\ appReq.pos <= Len(wsgi_app)
    /\ LET index == wsgi_app[appReq.pos]
           config == middleware_configs[index]
       IN IF ~path_is_match(config.path, appReq.path)
          THEN /\ appReq' = [appReq EXCEPT !.pos = @ + 1]
               /\ UNCHANGED <<appPc, appLog>>
          ELSE /\ appLog' = Append(appLog, [op |-> "verify", config |-> index])
               /\ IF valid
                  THEN /\ appReq' = [appReq EXCEPT
                                        !.pos = @ + 1,
                                        !.entered = <<index>> \o @]
                       /\ UNCHANGED appPc
                  ELSE /\ appReq' = [appReq EXCEPT
                                        !.status = 402,
                                        !.headers = <<"Content-Type">>,
                                        !.stored = <<"Content-Type">>]
                       /\ appPc' = "up"
    /\ UNCHANGED <<middleware_configs, wsgi_app, appAdds,
                   fnVars, mwVars, clVars>>

\* The Flask app itself handles the request: it calls start_response with
\* the status and the list of headers, through every ResponseWrapper down to
\* the server, and returns the body.
AppHandler(status) ==
    /\ appPc = "down"
    /\ appReq.pos = Len(wsgi_app) + 1
    /\ appLog' = Append(appLog, [op |-> "handler", config |-> 0])
    /\ appReq' = [appReq EXCEPT !.status = status,
                                !.headers = <<"Content-Type">>,
                                !.stored = <<"Content-Type">>]
    /\ appPc' = "up"
    /\ UNCHANGED <<middleware_configs, wsgi_app, appAdds,
                   fnVars, mwVars, clVars>>

\* next_app returns to the innermost middleware that called it: it settles
\* when the status is 2xx, appends X-PAYMENT-RESPONSE to
\* response_wrapper.headers when settle succeeded, and returns the body.
AppMiddlewareReturn(success) ==
    /\ appPc = "up"
    /\ appReq.entered # <<>>
    /\ LET index == Head(appReq.entered)
       IN IF ~Is2xx(appReq.status)
          THEN /\ appReq' = [appReq EXCEPT !.entered = Tail(@)]
               /\ UNCHANGED appLog
          ELSE IF ~success
          THEN /\ appReq' = [appReq EXCEPT !.entered = Tail(@)]
               /\ appLog' = Append(appLog, [op |-> "settle", config |-> index])
          ELSE /\ appReq' = [appReq EXCEPT
                                !.entered = Tail(@),
                                !.headers = Append(@, "X-PAYMENT-RESPONSE")]
               /\ appLog' = appLog \o << [op |-> "settle", config |-> index],
                                          [op |-> "add_header", config |-> index] >>
    /\ UNCHANGED <<appPc, middleware_configs, wsgi_app, appAdds,
                   fnVars, mwVars, clVars>>

\* app.wsgi_app has returned: the server sends the headers it holds, then
\* the body.
AppRespond ==
    /\ appPc = "up"
    /\ appReq.entered = <<>>
    /\ appPc' = "done"
    /\ appReq' = [appReq EXCEPT
                     !.client = IF appReq.server = "keeps" THEN appReq.headers
                                ELSE appReq.stored]
    /\ UNCHANGED <<appLog, middleware_configs, wsgi_app, appAdds,
                   fnVars, mwVars, clVars>>

AppNext ==
    \/ \E config \in AppConfigs : AppAdd(config)
    \/ \E path \in {<<"/", "a">>, <<"/", "b">>}, server \in WsgiServers :
           AppRequest(path, server)
    \/ \E valid \in BOOLEAN : AppMiddleware(valid)
    \/ \E status \in {200, 500} : AppHandler(status)
    \/ \E success \in BOOLEAN : AppMiddlewareReturn(success)
    \/ AppRespond

(***************************************************************************)
(* Specifications                                                          *)
(***************************************************************************)

\* No client: the state of the client part while the middleware is checked.
ClAbsent ==
    /\ clientKind = "httpx"
    /\ max_value = NoMaxValue
    /\ is_retry = FALSE
    /\ chPc = [c \in Chains |-> "idle"]
    /\ ch = [c \in Chains |-> NoChain]

\* No server: the state of the middleware part while the client is checked.
MwAbsent ==
    /\ framework = "fastapi"
    /\ cfgPath = StrPath(<<"/", "a">>)
    /\ mwPc = [r \in Requests |-> "idle"]
    /\ mwReq = [r \in Requests |-> NoRequest]
    /\ mwLocal = [r \in Requests |-> NoLocal]
    /\ mwLog = [r \in Requests |-> <<>>]
    /\ mwOut = [r \in Requests |-> NoResponse]

\* No call of a function on its own.
FnAbsent ==
    /\ fnCall = "none"
    /\ fnArgs = [fn |-> "none"]
    /\ fnResult = NoFnResult

\* Requests through one middleware.
AppAbsent ==
    /\ middleware_configs = <<>>
    /\ wsgi_app = <<>>
    /\ appAdds = <<>>
    /\ appPc = "idle"
    /\ appReq = NoAppRequest
    /\ appLog = <<>>

InitMw == MwInit /\ ClAbsent /\ FnAbsent /\ AppAbsent

SpecMw == InitMw /\ [][MwNext]_vars

\* Response chains, one after the other, through one interceptor.
InitClient == ClInit /\ MwAbsent /\ FnAbsent /\ AppAbsent

SpecClient == InitClient /\ [][ClNext]_vars

\* Response chains interleaved on one interceptor.
SpecClientConc == InitClient /\ [][ClNextConc]_vars

\* One call of the selector or of the matching function on drawn arguments.
InitFn == FnInit /\ MwAbsent /\ ClAbsent /\ AppAbsent

SpecFn == InitFn /\ [][FnNext]_vars

\* A Flask app: calls of PaymentMiddleware.add, then a request.
InitApp == AppInit /\ MwAbsent /\ ClAbsent /\ FnAbsent

SpecApp == InitApp /\ [][AppNext]_vars

(***************************************************************************)
(* Properties of the middleware                                            *)
(***************************************************************************)

Occurrences(log, e) == Cardinality({i \in DOMAIN log : log[i] = e})

Receipt == "X-PAYMENT-RESPONSE"

\* The place of an event in the order of one gated request.
Rank(e) ==
    CASE e = "path-match" -> 1
      [] e = "decode" -> 2
      [] e = "verify" -> 3
      [] e = "handler" -> 4
      [] e = "settle" -> 5
      [] e = "attach" -> 6

VerifyReturned(r) == mwLocal[r].verify_response # <<>>
SettleReturned(r) == mwLocal[r].settle_response # <<>>
HandlerReturned(r) == mwLocal[r].response # NoResponse

\* C1: a response that leaves the middleware carries X-PAYMENT-RESPONSE only
\* if the downstream handler of that request returned a 2xx status and
\* facilitator.settle returned success=true for that request.
C1_ReceiptOnlyIfSettled ==
    \A r \in Requests :
        (mwPc[r] = "done" /\ Receipt \in mwOut[r].headers) =>
            /\ HandlerReturned(r)
            /\ mwLocal[r].response.status \in 200..299
            /\ SettleReturned(r)
            /\ mwLocal[r].settle_response[1].success

C1_Witness ==
    \E r \in Requests : mwPc[r] = "done" /\ Receipt \in mwOut[r].headers

\* C2: the events of one request occur only in the order path-match, decode,
\* verify, handler, settle, attach, and settle is called only once the
\* downstream handler has returned a 2xx response.
C2_EventOrder ==
    \A r \in Requests :
        /\ \A i, j \in DOMAIN mwLog[r] :
               i < j => Rank(mwLog[r][i]) < Rank(mwLog[r][j])
        /\ Occurrences(mwLog[r], "settle") > 0 =>
               /\ HandlerReturned(r)
               /\ mwLocal[r].response.status \in 200..299

C2_Witness ==
    \E r \in Requests :
        mwLog[r] = <<"path-match", "decode", "verify", "handler", "settle", "attach">>

\* C4 as stated: when verify returns isValid=false the 402's error is
\* "Invalid payment: " followed by the invalidReason (nothing when there is
\* none); no handler, no settle.
C4_RejectedWithReason ==
    \A r \in Requests :
        (VerifyReturned(r) /\ ~mwLocal[r].verify_response[1].is_valid) =>
            LET reason == mwLocal[r].verify_response[1].invalid_reason
            IN /\ mwPc[r] = "done"
               /\ mwOut[r].status = 402
               /\ mwOut[r].error =
                      "Invalid payment: " \o (IF reason = None THEN "" ELSE reason)
               /\ Occurrences(mwLog[r], "handler") = 0
               /\ Occurrences(mwLog[r], "settle") = 0

\* C4 amended: when verify returns isValid=false the middleware answers 402
\* with error "Invalid payment: <invalidReason>", or "Invalid payment:
\* Unknown error" when invalidReason is missing or empty; the downstream
\* handler is not run and settle is not called.
C4_RejectedWithReasonOrUnknown ==
    \A r \in Requests :
        (VerifyReturned(r) /\ ~mwLocal[r].verify_response[1].is_valid) =>
            LET reason == mwLocal[r].verify_response[1].invalid_reason
            IN /\ mwPc[r] = "done"
               /\ mwOut[r].status = 402
               /\ mwOut[r].body = "x402"
               /\ mwOut[r].error =
                      (IF reason \in {None, ""}
                       THEN "Invalid payment: Unknown error"
                       ELSE "Invalid payment: " \o reason)
               /\ Occurrences(mwLog[r], "handler") = 0
               /\ Occurrences(mwLog[r], "settle") = 0

C4_Witness ==
    \E r \in Requests :
        /\ VerifyReturned(r)
        /\ mwLocal[r].verify_response[1] =
               [is_valid |-> FALSE, invalid_reason |-> "expired"]
        /\ mwOut[r].error = "Invalid payment: expired"

\* C5: when the handler returned 2xx and settle returns success=false, the
\* response is a 402 with error "Settle failed: <errorReason>" and without
\* X-PAYMENT-RESPONSE, in place of the handler's response.
C5_SettleFailureIs402 ==
    \A r \in Requests :
        (/\ HandlerReturned(r)
         /\ mwLocal[r].response.status \in 200..299
         /\ SettleReturned(r)
         /\ ~mwLocal[r].settle_response[1].success
         /\ mwLocal[r].settle_response[1].error_reason # None) =>
            /\ mwPc[r] = "done"
            /\ mwOut[r].status = 402
            /\ mwOut[r].error =
                   "Settle failed: " \o mwLocal[r].settle_response[1].error_reason
            /\ Receipt \notin mwOut[r].headers

\* C6: when the handler's status is outside 200-299, settle is not called
\* and the handler's response is returned unchanged, without
\* X-PAYMENT-RESPONSE.
C6_Non2xxNotSettled ==
    \A r \in Requests :
        (HandlerReturned(r) /\ mwLocal[r].response.status \notin 200..299) =>
            /\ Occurrences(mwLog[r], "settle") = 0
            /\ ~SettleReturned(r)
            /\ mwPc[r] = "done"
            /\ mwOut[r] = mwLocal[r].response
            /\ Receipt \notin mwOut[r].headers

C6_Witness ==
    \E r \in Requests :
        /\ mwPc[r] = "done"
        /\ Occurrences(mwLog[r], "verify") = 1
        /\ mwLocal[r].response.status = 404
        /\ mwOut[r].status = 404

\* The pairs of configured path and request path that do not match:
\* "/b" matches none of "/a", "/a*", ["/a", "regex:/c"]; "/a/x" matches
\* only "/a*".
UngatedPairs ==
    { <<p, <<"/", "b">> >> : p \in ConfiguredPaths }
    \cup { <<p, <<"/", "a", "/", "x">> >> :
               p \in ConfiguredPaths \ {StrPath(<<"/", "a", "*">>)} }

\* C7: when the request path does not match the configured pattern, the
\* downstream handler is called exactly once with the request as received,
\* its response is returned unmodified, and neither verify nor settle is
\* called.
C7_PassthroughPure ==
    \A r \in Requests :
        (mwPc[r] # "idle" /\ <<cfgPath, mwReq[r].path>> \in UngatedPairs) =>
            /\ mwLog[r] = <<"path-match", "handler">>
            /\ mwLocal[r].state = {}
            /\ ~VerifyReturned(r) /\ ~SettleReturned(r)
            /\ mwPc[r] = "done" =>
                   /\ HandlerReturned(r)
                   /\ mwOut[r] = mwLocal[r].response

C7_Witness ==
    \E r \in Requests :
        /\ mwPc[r] = "done"
        /\ <<cfgPath, mwReq[r].path>> \in UngatedPairs
        /\ mwReq[r].xPayment.kind = "payload"
        /\ mwOut[r].status = 200

\* C12: for one request through one middleware, facilitator.verify is
\* called at most once and facilitator.settle at most once; after a
\* rejection or a failed settle the request has ended without a further call.
C12_VerifySettleAtMostOnce ==
    \A r \in Requests :
        /\ Occurrences(mwLog[r], "verify") <= 1
        /\ Occurrences(mwLog[r], "settle") <= 1
        /\ (VerifyReturned(r) /\ ~mwLocal[r].verify_response[1].is_valid) =>
               mwPc[r] = "done" /\ Occurrences(mwLog[r], "settle") = 0
        /\ (SettleReturned(r) /\ ~mwLocal[r].settle_response[1].success) =>
               mwPc[r] = "done"

C12_Witness ==
    \E r \in Requests :
        /\ mwPc[r] = "done"
        /\ SettleReturned(r)
        /\ ~mwLocal[r].settle_response[1].success
        /\ Occurrences(mwLog[r], "verify") = 1
        /\ Occurrences(mwLog[r], "settle") = 1

\* C13: a request to a gated path with no X-PAYMENT header, or with an empty
\* one, gets the 402 with error "No X-PAYMENT header provided"; the
\* facilitator is not called and the downstream handler is not run.
C13_NoHeaderIs402 ==
    \A r \in Requests :
        (/\ mwPc[r] # "idle"
         /\ path_is_match(cfgPath, mwReq[r].path)
         /\ mwReq[r].xPayment.kind \in {"missing", "empty"}) =>
            /\ mwPc[r] = "done"
            /\ mwOut[r] = x402_response("No X-PAYMENT header provided")
            /\ mwLog[r] = <<"path-match">>
            /\ ~VerifyReturned(r) /\ ~SettleReturned(r) /\ ~HandlerReturned(r)

C13_Witness ==
    \E r, q \in Requests :
        /\ mwPc[r] = "done" /\ mwPc[q] = "done"
        /\ path_is_match(cfgPath, mwReq[r].path)
        /\ path_is_match(cfgPath, mwReq[q].path)
        /\ mwReq[r].xPayment.kind = "missing"
        /\ mwReq[q].xPayment.kind = "empty"
        /\ mwOut[r].error = "No X-PAYMENT header provided"
        /\ mwOut[q].error = "No X-PAYMENT header provided"

\* C14: a request to a gated path whose X-PAYMENT header cannot be decoded
\* into a PaymentPayload gets a 402 whose error begins with "Invalid payment
\* header format"; facilitator.verify is not called and the downstream
\* handler is not run.
C14_UndecodableIs402 ==
    \A r \in Requests :
        (/\ mwPc[r] # "idle"
         /\ path_is_match(cfgPath, mwReq[r].path)
         /\ mwReq[r].xPayment.kind \in {"not_base64", "not_json", "bad_fields"}) =>
            /\ mwPc[r] = "done"
            /\ mwOut[r].status = 402
            /\ mwOut[r].body = "x402"
            /\ StartsWith(mwOut[r].error, "Invalid payment header format")
            /\ Occurrences(mwLog[r], "verify") = 0
            /\ Occurrences(mwLog[r], "handler") = 0
            /\ ~VerifyReturned(r) /\ ~HandlerReturned(r)

C14_Witness ==
    \E r \in Requests :
        /\ mwPc[r] = "done"
        /\ mwReq[r].xPayment.kind = "bad_fields"
        /\ framework = "flask"
        /\ mwOut[r].error = "Invalid payment header format: decode error"

\* Whether the requirement has the scheme and the network of the payload
\* carried by the header.
MatchesHeader(req, h) == req.scheme = h.scheme /\ req.network = h.network

\* C15: facilitator.verify is called only with an advertised requirement
\* whose scheme and network both equal those of the decoded payload, the
\* first such one in list order; when no advertised requirement matches, the
\* answer is the 402 "No matching payment requirements found" and neither the
\* facilitator nor the handler is called.
C15_VerifyOnlyMatching ==
    \A r \in Requests :
        LET h == mwReq[r].xPayment
            matching == {i \in DOMAIN payment_requirements :
                            MatchesHeader(payment_requirements[i], h)}
        IN /\ Occurrences(mwLog[r], "verify") > 0 =>
                  \E i \in matching :
                      /\ mwLocal[r].selected = payment_requirements[i]
                      /\ \A j \in matching : i <= j
           /\ (/\ mwPc[r] # "idle"
               /\ path_is_match(cfgPath, mwReq[r].path)
               /\ h.kind = "payload"
               /\ matching = {}) =>
                  /\ mwPc[r] = "done"
                  /\ mwOut[r] = x402_response(
                         "No matching payment requirements found")
                  /\ Occurrences(mwLog[r], "verify") = 0
                  /\ Occurrences(mwLog[r], "handler") = 0
                  /\ ~VerifyReturned(r) /\ ~HandlerReturned(r)

C15_Witness ==
    \E r, q \in Requests :
        /\ mwPc[r] = "done"
        /\ mwReq[r].xPayment = XPayment("payload", "exact", "base")
        /\ mwOut[r].error = "No matching payment requirements found"
        /\ VerifyReturned(q)
        /\ mwLocal[q].selected = [scheme |-> "exact", network |-> "bsc-mainnet"]

\* facilitator.settle was called for the request and raised: it was called,
\* has not returned, and the middleware no longer waits for it.
SettleRaised(r) ==
    /\ Occurrences(mwLog[r], "settle") > 0
    /\ ~SettleReturned(r)
    /\ mwPc[r] # "settle"

\* C16: when facilitator.settle raises after a 2xx handler response, the
\* exception does not leave the middleware: FastAPI returns the 402 with
\* error "Settle failed", Flask, whose response has been started, the
\* handler's original response; neither carries X-PAYMENT-RESPONSE.
C16_SettleRaiseContained ==
    \A r \in Requests :
        SettleRaised(r) =>
            /\ mwPc[r] = "done"
            /\ mwLocal[r].response.status \in 200..299
            /\ mwOut[r] = (IF framework = "fastapi"
                           THEN x402_response("Settle failed")
                           ELSE mwLocal[r].response)
            /\ Receipt \notin mwOut[r].headers

C16_Witness ==
    \E r \in Requests :
        /\ SettleRaised(r)
        /\ mwLocal[r].response.status = 200
        /\ mwOut[r].status = 402
        /\ mwOut[r].error = "Settle failed"

\* C23: within one request, facilitator.settle is called with exactly the
\* payment payload and the requirement that were passed to
\* facilitator.verify for that request, whatever other requests are under
\* way in the same middleware.
C23_SettleArgsAreVerifyArgs ==
    \A r \in Requests :
        mwLocal[r].settle_args # <<>> =>
            /\ mwLocal[r].verify_args # <<>>
            /\ mwLocal[r].settle_args = mwLocal[r].verify_args
            /\ mwLocal[r].settle_args[1].owner = r

C23_Witness ==
    \E r, q \in Requests :
        /\ r # q
        /\ mwPc[r] = "settle" /\ mwPc[q] = "handler"
        /\ mwLocal[r].settle_args # <<>>
        /\ mwLocal[q].verify_args # <<>>

\* C33: the downstream handler of a gated path runs only after
\* facilitator.verify returned isValid=true for the request, with the
\* selected requirement and the verify response attached to the request
\* context.
C33_HandlerAfterValidVerify ==
    \A r \in Requests :
        (/\ Occurrences(mwLog[r], "decode") > 0
         /\ Occurrences(mwLog[r], "handler") > 0) =>
            /\ VerifyReturned(r)
            /\ mwLocal[r].verify_response[1].is_valid
            /\ mwLocal[r].selected # NoRequirement
            /\ mwLocal[r].state = {"payment_details", "verify_response"}

C33_Witness ==
    \E r \in Requests :
        /\ mwPc[r] = "handler"
        /\ mwLocal[r].verify_response # <<>>
        /\ mwLocal[r].state = {"payment_details", "verify_response"}

\* C34: when facilitator.verify raises, the downstream handler is not run and
\* facilitator.settle is not called for that request.
C34_VerifyRaiseStopsRequest ==
    \A r \in Requests :
        mwLocal[r].verify_raised =>
            /\ Occurrences(mwLog[r], "handler") = 0
            /\ Occurrences(mwLog[r], "settle") = 0
            /\ mwLocal[r].settle_args = <<>>
            /\ ~HandlerReturned(r)
            /\ mwPc[r] = "raised"

C34_Witness ==
    \E r \in Requests :
        /\ mwLocal[r].verify_raised
        /\ mwLocal[r].verify_args # <<>>
        /\ mwPc[r] = "raised"

\* C35: in the Flask middleware every event loop created for a verify or a
\* settle call is closed once the middleware has returned or an exception
\* has left it, and each facilitator call had a loop of its own.
C35_LoopsClosed ==
    \A r \in Requests :
        /\ mwPc[r] \in {"done", "raised"} =>
               \A i \in DOMAIN mwLocal[r].loops : mwLocal[r].loops[i] = "closed"
        /\ framework = "flask" =>
               Len(mwLocal[r].loops) = Occurrences(mwLog[r], "verify")
                                          + Occurrences(mwLog[r], "settle")

C35_Witness ==
    /\ framework = "flask"
    /\ \E r \in Requests :
           /\ mwLocal[r].verify_raised
           /\ mwPc[r] = "raised"
           /\ mwLocal[r].loops = <<"closed">>
    /\ \E r \in Requests :
           /\ mwPc[r] = "done"
           /\ mwLocal[r].loops = <<"closed", "closed">>

(***************************************************************************)
(* Properties of the client interceptors                                   *)
(***************************************************************************)

\* C3: in any response chain at most one retry request is sent, whatever
\* status codes the server returns.
C3_AtMostOneRetry == \A c \in Chains : ch[c].retries <= 1

C3_Witness ==
    \E c \in Chains :
        chPc[c] = "done" /\ ch[c].retries = 1 /\ ch[c].second.status = 500

\* C8: after a chain has ended with a paid retry, a later chain on the same
\* interceptor whose first response is 402 is handled again and not handed
\* to the caller unpaid.
C8_LaterChainHandled ==
    \A c \in Chains :
        (ChainEnded(c) /\ ch[c].prior # {} /\ ch[c].first.status = 402) =>
            ~(chPc[c] = "done" /\ ch[c].retries = 0)

\* C9: when the server answers the paid retry with 402 again, the client has
\* sent exactly one retry, signed one payment, and hands the retry's 402
\* (status, headers and body) to the caller without raising.
C9_Retry402Surfaced ==
    \A c \in Chains :
        ch[c].second.status = 402 =>
            /\ chPc[c] = "done"
            /\ ch[c].retries = 1
            /\ ch[c].signatures = 1
            /\ ch[c].exc = None
            /\ ch[c].result = ch[c].second

C9_Witness ==
    \E c \in Chains :
        /\ chPc[c] = "done"
        /\ ch[c].first.status = 402
        /\ ch[c].second.status = 402
        /\ ch[c].result.content.id = "challenge again"

\* C10: when body parsing, selection, signing or the retry's send raises
\* while a 402 is handled, _is_retry is false at the moment the exception
\* reaches the caller.
C10_FlagClearedOnRaise ==
    [][\A c \in Chains :
           (/\ chPc[c] # "raised"
            /\ chPc'[c] = "raised"
            /\ ch'[c].cause \in {"parse", "select", "sign", "retry"}) =>
               is_retry' = FALSE]_vars

C10_Witness ==
    \E c \in Chains :
        chPc[c] = "raised" /\ ch[c].cause = "retry" /\ ch[c].retries = 1

\* C11: when chains are interleaved on one interceptor, a chain that started
\* before any chain had ended paid and whose first response is 402 is handled
\* (its own payment attempt, its own single retry) and is not handed to the
\* caller unpaid because of another chain's retry state.
C11_InterleavedChainsIndependent ==
    \A c \in Chains :
        (ChainEnded(c) /\ ch[c].prior = {} /\ ch[c].first.status = 402) =>
            /\ ~(chPc[c] = "done" /\ ch[c].retries = 0)
            /\ ch[c].retries <= 1

\* C19: when the selector raises PaymentAmountExceeded for a 402 response,
\* the caller gets PaymentAmountExceeded, and the client has produced no
\* signature and sent no retry request.
C19_AmountExceededSurfaced ==
    \A c \in Chains :
        (/\ ch[c].selections > 0
         /\ select_payment_requirements(ch[c].first.content.accepts).raises
                = "PaymentAmountExceededError") =>
            /\ chPc[c] = "raised"
            /\ ch[c].exc = "PaymentAmountExceededError"
            /\ ch[c].signatures = 0
            /\ ch[c].retries = 0
            /\ ch[c].second = NoClResponse

C19_Witness ==
    \E c \in Chains :
        /\ chPc[c] = "raised"
        /\ max_value = 1000
        /\ ch[c].first.status = 402
        /\ ch[c].first.content.accepts =
               << Requirement("exact", "bsc-mainnet", <<1, 0, 0, 1>>) >>
        /\ ch[c].cause = "select"
        /\ ch[c].exc = "PaymentAmountExceededError"

\* C20: every exception raised while the client handles a 402 response (the
\* body does not parse, the selector raises UnsupportedScheme, signing fails,
\* the retry's send fails) reaches the caller as a PaymentError or a subclass
\* of it.
C20_OnlyPaymentErrorsEscape ==
    \A c \in Chains :
        (chPc[c] = "raised" /\ ch[c].cause \in {"parse", "select", "sign", "retry"}) =>
            ch[c].exc \in PaymentErrors

C20_Witness ==
    \E c \in Chains :
        /\ chPc[c] = "raised"
        /\ ch[c].first.status = 402
        /\ ch[c].first.content.json
        /\ ch[c].first.content.accepts = <<>>
        /\ ch[c].cause = "select"
        /\ ch[c].exc = "PaymentError"

\* C21: a response whose status is not 402 is returned by the interceptor
\* unchanged, with no selection, no signing and no retry.
C21_Non402Unchanged ==
    \A c \in Chains :
        (ch[c].first # NoClResponse /\ ch[c].first.status # 402) =>
            /\ chPc[c] = "done"
            /\ ch[c].result = ch[c].first
            /\ ch[c].exc = None
            /\ ch[c].selections = 0
            /\ ch[c].signatures = 0
            /\ ch[c].retries = 0
            /\ ch[c].second = NoClResponse

C21_Witness ==
    \E c \in Chains :
        /\ chPc[c] = "done"
        /\ ~ch[c].bypass
        /\ ch[c].first.status = 404
        /\ ch[c].result.content.id = "not found"

(***************************************************************************)
(* Properties of the selector and of the matching function                 *)
(***************************************************************************)

\* A filter lets a value pass when it is not set or equal to the value.
Passes(filter, value) == filter \in {None, ""} \/ value = filter

\* The entries of the call's list that pass both filters and are "exact".
Qualifying ==
    {i \in DOMAIN fnArgs.accepts :
        /\ Passes(fnArgs.scheme_filter, fnArgs.accepts[i].scheme)
        /\ Passes(fnArgs.network_filter, fnArgs.accepts[i].network)
        /\ fnArgs.accepts[i].scheme = "exact"}

\* The first of them (when there is one).
FirstQualifying == CHOOSE i \in Qualifying : \A j \in Qualifying : i <= j

\* find_matching_payment_requirements returns the first entry, in list
\* order, with the payment's scheme and network, and None when there is none.
FindMatchingFirstInOrder ==
    fnCall = "find_matching" =>
        LET l == fnArgs.accepts
            M == {i \in DOMAIN l : /\ l[i].scheme = fnArgs.payment.scheme
                                   /\ l[i].network = fnArgs.payment.network}
        IN IF M = {} THEN fnResult.req = NoRequirement
           ELSE \E i \in M : fnResult.req = l[i] /\ \A j \in M : i <= j

\* C17: the default selector returns the first entry of accepts, in list
\* order, that passes the scheme and network filters and has scheme "exact"
\* (an entry above the cap raises instead); when no entry qualifies, also
\* when accepts is empty, it raises UnsupportedScheme.
C17_SelectorFirstQualifying ==
    fnCall = "selector" =>
        IF Qualifying = {}
        THEN fnResult.raises = "UnsupportedSchemeException"
        ELSE /\ fnResult.raises \in {None, "PaymentAmountExceededError"}
             /\ fnResult.raises = None =>
                    fnResult.req = fnArgs.accepts[FirstQualifying]
             /\ fnArgs.max_value = NoMaxValue => fnResult.raises = None

C17_Witness ==
    /\ fnCall = "selector"
    /\ Len(fnArgs.accepts) = 3
    /\ fnArgs.network_filter = "bsc-mainnet"
    /\ fnArgs.accepts[1].network = "base"
    /\ fnArgs.accepts[2].scheme = "upto"
    /\ fnResult.raises = None
    /\ fnResult.req = fnArgs.accepts[3]

\* C18: with a max_value cap, the default selector raises
\* PaymentAmountExceeded for the first qualifying "exact" entry exactly when
\* its maxAmountRequired is strictly greater than max_value; an amount equal
\* to max_value is accepted.
C18_CapIsInclusive ==
    (fnCall = "selector" /\ fnArgs.max_value # NoMaxValue /\ Qualifying # {}) =>
        LET first == fnArgs.accepts[FirstQualifying]
        IN /\ fnResult.raises = "PaymentAmountExceededError" <=>
                  int(first.max_amount_required) > fnArgs.max_value
           /\ int(first.max_amount_required) = fnArgs.max_value =>
                  fnResult = [raises |-> None, req |-> first]

C18_Witness ==
    /\ fnCall = "selector"
    /\ fnArgs.max_value = 1000
    /\ Len(fnArgs.accepts) = 3
    /\ fnArgs.accepts[1] = Requirement("upto", "bsc-mainnet", <<2, 0, 0, 0>>)
    /\ fnArgs.accepts[2] = Requirement("exact", "bsc-mainnet", <<1, 0, 0, 0>>)
    /\ fnArgs.accepts[3] = Requirement("exact", "base", <<1, 0, 0, 1>>)
    /\ fnResult = [raises |-> None, req |-> fnArgs.accepts[2]]

(***************************************************************************)
(* Properties of the factories and of the price conversion                 *)
(***************************************************************************)

\* The prices of FnPrices that resolve to an amount: a Money string that is
\* a finite decimal number, an int, a TokenAmount.
ResolvablePrices ==
    { Price("str", "$0.001"), Price("str", "$3.10"), Price("str", "0.5"),
      Price("str", "$-1"), Price("int", "1"),
      Price("TokenAmount", "1000"), Price("TokenAmount", "-5") }

\* C22: an unsupported network or an unresolvable price makes the middleware
\* factory raise at construction, and a request served by a middleware the
\* factory returned does not fail when the requirements are built from the
\* network and the price.
C22_ConfigFailsAtConstruction ==
    /\ (/\ fnCall = "require_payment"
        /\ \/ fnArgs.network \notin {"base", "bsc-mainnet", "avalanche-fuji",
                                      "avalanche"}
           \/ fnArgs.price \notin ResolvablePrices) =>
           fnResult.raises = "ValueError"
    /\ (/\ fnCall = "require_payment"
        /\ fnArgs.network \in {"base", "bsc-mainnet", "avalanche-fuji",
                                "avalanche"}
        /\ fnArgs.price \in ResolvablePrices) =>
           fnResult.raises = None
    /\ fnCall = "middleware" => fnResult.raises = None

C22_Witness ==
    /\ fnCall = "middleware"
    /\ fnArgs.price = Price("str", "$0.001")
    /\ fnArgs.network = "avalanche"
    /\ fnResult = [raises |-> None, amount |-> Chars("1000")]

\* The authorization of the header the last call returned.
Authorization == decode_payment(fnResult.encoded)

\* C24: an authorization produced by create_payment_header at time now, from
\* requirements the type validators accept, has validAfter < now <=
\* validBefore and validBefore - now <= max_timeout_seconds + 1 second; now
\* is either reading of the clock the call makes.
C24_ValidityWindow ==
    (fnCall = "create_payment_header" /\ fnResult.raises = None) =>
        \A now \in {fnArgs.t1, fnArgs.t1 + fnArgs.gap} :
            LET validAfter == IntOfStr(Authorization.validAfter.v)
                validBefore == IntOfStr(Authorization.validBefore.v)
            IN /\ validAfter * TicksPerSecond < now
               /\ now <= validBefore * TicksPerSecond
               /\ validBefore * TicksPerSecond - now
                      <= (fnArgs.requirements.max_timeout_seconds + 1)
                             * TicksPerSecond

\* The integer d * 10^TokenDecimals as a decimal string, read off the text
\* of d: the digits before and after the point, the latter padded with
\* zeros to TokenDecimals digits.
ExactAtomic(d) ==
    LET body == Unsigned(d)
        points == {i \in DOMAIN body : body[i] = "."}
        p == IF points = {} THEN Len(body) + 1 ELSE CHOOSE i \in points : TRUE
        frac == SubSeq(body, p + 1, Len(body))
        all == SubSeq(body, 1, p - 1) \o frac
        digits == StripZeros([i \in DOMAIN all |-> DigitValue(all[i])]
                                \o Zeros(TokenDecimals - Len(frac)))
    IN IF digits = <<>> THEN <<"0">>
       ELSE (IF Head(d) = "-" THEN <<"-">> ELSE <<>>)
            \o [i \in DOMAIN digits |-> DigitChar(digits[i])]

\* C25: for a USD decimal d with at most 6 fractional digits and a supported
\* network, process_price_to_atomic_amount("$" + d, network) returns the
\* integer d * 10^6 as a decimal string.
C25_AtomicAmountExact ==
    (/\ fnCall = "process_price"
     /\ fnArgs.price \in UsdPrices
     /\ fnArgs.network \in SupportedNetworks) =>
        /\ fnResult.raises = None
        /\ fnResult.amount = ExactAtomic(Tail(fnArgs.price.text))

\* The same for the decimals of at most DecimalPrec significant digits.
AtomicAmountExactWithinPrecision ==
    (/\ fnCall = "process_price"
     /\ fnArgs.price \in UsdPrices
     /\ fnArgs.network \in SupportedNetworks
     /\ Len(Decimal(Tail(fnArgs.price.text)).coeff) <= DecimalPrec) =>
        /\ fnResult.raises = None
        /\ fnResult.amount = ExactAtomic(Tail(fnArgs.price.text))

\* The stated normalisation of a nonce or a signature: 0x-prefixed hex.
Hex0x(value) ==
    IF value.t = "bytes" THEN PyStr(<<"0", "x">> \o value.v)
    ELSE IF value.t = "str" /\ SubSeq(value.v, 1, 2) # <<"0", "x">>
    THEN PyStr(<<"0", "x">> \o value.v)
    ELSE value

Normalised(payload) ==
    [payload EXCEPT !.nonce = Hex0x(@), !.signature = Hex0x(@)]

NonNegativeInteger(v) == IntParses(v) /\ IntOfStr(v) >= 0

\* C27: max_amount_required and value are accepted at construction exactly
\* when they parse as non-negative integers.
C27_OnlyNonNegativeIntegers ==
    fnCall = "validate" =>
        (fnResult.raises = None <=> NonNegativeInteger(Chars(fnArgs.v)))

\* The same without the sign: accepted exactly when int() parses the string.
ValidatorsAcceptIntegers ==
    fnCall = "validate" =>
        (fnResult.raises = None <=>
            fnArgs.v \in {"0", "1000", "007", "-5", "-0", "+5"})

\* C28: asked to sign for a requirement whose scheme is not "exact", the
\* signer fails with UnsupportedScheme and produces no payment header.
C28_SignerRejectsOtherSchemes ==
    (/\ fnCall = "create_payment_header"
     /\ fnArgs.requirements.scheme # "exact") =>
        /\ fnResult.raises = "UnsupportedScheme"
        /\ fnResult.encoded = NoEncoded
        /\ Produced = <<>>

\* Whether a request header is present and its value contains the text.
HeaderContains(value, text) == value # None /\ Contains(value, text)

\* C29: the body of a 402 is the HTML paywall exactly when the Accept header
\* contains text/html and the User-Agent contains Mozilla; otherwise it is
\* an application/json x402PaymentRequiredResponse.
C29_PaywallForBrowsersOnly ==
    fnCall = "x402_response" =>
        /\ fnResult.status = 402
        /\ IF /\ HeaderContains(fnArgs.accept, "text/html")
              /\ HeaderContains(fnArgs.user_agent, "Mozilla")
           THEN /\ fnResult.body.kind = "html"
                /\ fnResult.content_type = "text/html; charset=utf-8"
           ELSE /\ fnResult.body.kind = "json"
                /\ fnResult.content_type = "application/json"
                /\ fnResult.body.x402Version = x402_VERSION
                /\ fnResult.body.accepts # <<>>
                /\ fnResult.body.error = fnArgs.error

C29_Witness ==
    /\ fnCall = "x402_response"
    /\ fnArgs.framework = "flask"
    /\ fnArgs.accept = "text/html,application/xhtml+xml;q=0.9"
    /\ fnArgs.user_agent = "Mozilla/5.0 (X11; Linux x86_64)"
    /\ fnResult.body.kind = "html"

\* The nonce in the i-th header the signer produced.
NonceOf(i) == decode_payment(Produced[i].header).nonce.v

AppCount(op, i) ==
    Cardinality({k \in DOMAIN appLog : appLog[k] = [op |-> op, config |-> i]})

\* C31: after any sequence of add calls the WSGI chain holds each registered
\* configuration exactly once, and a request triggers at most one verify
\* and at most one settle for a configuration.
C31_EachConfigurationOnce ==
    /\ (\A k \in DOMAIN appAdds : appAdds[k].raises = None) =>
           \A i \in DOMAIN middleware_configs :
               Cardinality({k \in DOMAIN wsgi_app : wsgi_app[k] = i}) = 1
    /\ \A i \in DOMAIN middleware_configs :
           AppCount("verify", i) <= 1 /\ AppCount("settle", i) <= 1

\* The list of configurations and the chain after the k-th call of add.
ConfigsAfter(k) ==
    IF k < Len(appAdds) THEN appAdds[k + 1].configs_before
    ELSE middleware_configs

ChainAfter(k) ==
    IF k < Len(appAdds) THEN appAdds[k + 1].wsgi_app_before ELSE wsgi_app

\* C32: a call of add that raises leaves the list of configurations and the
\* WSGI chain as they were, and a later add of a valid configuration
\* succeeds.
C32_FailedAddLeavesNoTrace ==
    \A k \in DOMAIN appAdds :
        /\ appAdds[k].raises # None =>
               /\ ConfigsAfter(k) = appAdds[k].configs_before
               /\ ChainAfter(k) = appAdds[k].wsgi_app_before
        /\ ~create_middleware_raises(appAdds[k].config) =>
               appAdds[k].raises = None

\* What does hold of a call of add that raises: the chain is as it was.
FailedAddLeavesChain ==
    \A k \in DOMAIN appAdds :
        appAdds[k].raises # None => ChainAfter(k) = appAdds[k].wsgi_app_before

\* C36: when settlement succeeded, X-PAYMENT-RESPONSE is among the headers of
\* the response when its body is sent to the client.
C36_ReceiptBeforeBody ==
    (/\ appPc = "done"
     /\ \E k \in DOMAIN appLog : appLog[k].op = "add_header") =>
        \E k \in DOMAIN appReq.client : appReq.client[k] = "X-PAYMENT-RESPONSE"

\* What does hold: the header is appended to the wrapper's list before the
\* body is sent, and reaches the client of a server that kept the list.
ReceiptReachesKeepingServer ==
    (/\ appPc = "done"
     /\ appReq.server = "keeps"
     /\ \E k \in DOMAIN appLog : appLog[k].op = "add_header") =>
        \E k \in DOMAIN appReq.client : appReq.client[k] = "X-PAYMENT-RESPONSE"

\* C37: the advertised resource is the configured one whenever one is set;
\* only when none is set is it the request URL or the URL rebuilt from
\* X-Original-URI.
C37_ConfiguredResourceWins ==
    fnCall = "resource_url" =>
        IF fnArgs.resource \notin {None, ""}
        THEN fnResult.resource = fnArgs.resource
        ELSE fnResult.resource \in
                 {ProxiedRequest.url, "http://10.0.0.5:8000/v1/weather?city=x"}

\* What does hold in FastAPI, and in Flask without X-Original-URI.
ConfiguredResourceWinsWithoutProxy ==
    (/\ fnCall = "resource_url"
     /\ fnArgs.framework = "fastapi" \/ fnArgs.original_uri \in {None, ""}
     /\ fnArgs.resource \notin {None, ""}) =>
        fnResult.resource = fnArgs.resource

\* C38: in every header create_payment_header produced, the authorization
\* has from = the signer's address, to = the requirement's pay_to and value =
\* its max_amount_required, and the nonce is 0x followed by the hex of the
\* nonce bytes that were signed, as the other signed fields are those of the
\* header.
C38_HeaderCarriesWhatWasSigned ==
    (fnCall = "create_payment_header" /\ fnResult.raises = None) =>
        /\ Authorization.from = PyStr(Chars(fnArgs.address))
        /\ Authorization.to = PyStr(Chars(fnArgs.requirements.pay_to))
        /\ Authorization.value = PyStr(fnArgs.requirements.max_amount_required)
        /\ fnResult.message.nonce.t = "bytes"
        /\ Len(fnResult.message.nonce.v) = 2 * NonceBytes
        /\ Authorization.nonce = PyStr(<<"0", "x">> \o fnResult.message.nonce.v)
        /\ fnResult.message.from = Authorization.from.v
        /\ fnResult.message.to = Authorization.to.v
        /\ fnResult.message.value = IntOfStr(Authorization.value.v)

C38_Witness ==
    /\ fnCall = "create_payment_header"
    /\ fnResult.raises = None
    /\ fnArgs.requirements.pay_to = "0xPayTo"
    /\ Authorization.to = PyStr(Chars("0xPayTo"))
    /\ Authorization.value = PyStr(Chars("25"))
    /\ Authorization.nonce = PyStr(<<"0", "x">> \o token_hex("b"))

\* The prices of FnPrices that do not parse: a string that is no number, the
\* empty string, NaN, an infinity, a value that is neither Money nor a
\* TokenAmount.
UnparseablePrices ==
    { Price("str", "$abc"), Price("str", "$"), Price("str", "$NaN"),
      Price("str", "$Inf"), Price("str", "$1.2.3"), Price("float", "0.01") }

\* The networks of FnNetworks that have no token table.
NetworksWithoutTokens == {"ethereum", "1"}

\* C39: process_price_to_atomic_amount signals an unparseable price, or a
\* Money price for a network with no token table, with ValueError, and
\* raises nothing else.
C39_InvalidPriceIsValueError ==
    fnCall = "process_price" =>
        /\ fnResult.raises \in {None, "ValueError"}
        /\ (\/ fnArgs.price \in UnparseablePrices
            \/ /\ fnArgs.price.type \in {"str", "int"}
               /\ fnArgs.network \in NetworksWithoutTokens) =>
               fnResult.raises = "ValueError"

\* What does hold: an unparseable price or a missing token table always
\* raises, ValueError or an ArithmeticError of decimal or int().
InvalidPriceRaises ==
    fnCall = "process_price" =>
        /\ fnResult.raises \in
               {None, "ValueError", "InvalidOperation", "OverflowError"}
        /\ (\/ fnArgs.price \in UnparseablePrices
            \/ /\ fnArgs.price.type \in {"str", "int"}
               /\ fnArgs.network \in NetworksWithoutTokens) =>
               fnResult.raises # None

====
